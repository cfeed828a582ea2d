---------------------------- MODULE MCLlmClient ----------------------------
(* Instances of LlmClient for TLC. *)
EXTENDS LlmClient, SequencesExt

\* Every answer of up to three lines; five lines without the odd ones.
MCContents ==
    BoundedSeq(Lines, 3) \cup
    BoundedSeq({Fence, Whole, Open, Close, Blank}, 5)
=============================================================================
