------------------------------ MODULE MCWebcal ------------------------------
(* Instances of Webcal for TLC. *)
EXTENDS Webcal, TLC

\* Calls are interchangeable; used by the runs without liveness properties.
CallSymmetry == Permutations(Calls)

MCFirstInstant == -1

\* An event without an end and one whose end is not after its start; the end
\* that the latter gets is Go's zero time.
MCExtracted == {[start |-> 1, end |-> 0], [start |-> -1, end |-> -1]}

\* One that begins before year 0, and one that ends after year 9999.
MCExtractedFar ==
    {[start |-> 1, end |-> 0], [start |-> -2, end |-> 2], [start |-> 2, end |-> 9]}

\* One that has expired when the clock starts, one without DTEND.
MCStored ==
    {[id |-> "old", dtstart |-> 0, dtend |-> 1],
     [id |-> "forever", dtstart |-> 1, dtend |-> 0]}

\* One alive, and one in a year of five digits that another program wrote.
MCStoredFar ==
    {[id |-> "live", dtstart |-> 2, dtend |-> 3],
     [id |-> "far", dtstart |-> 2, dtend |-> 9]}

\* One that is alive for as long as the clock runs.
MCStoredLive == {[id |-> "live", dtstart |-> 2, dtend |-> 3]}
=============================================================================
