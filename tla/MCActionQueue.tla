--------------------------- MODULE MCActionQueue ---------------------------
(* One request id is used for an action and for an archive, one only for   *)
(* an archive; the third request only reads.                               *)
EXTENDS ActionQueue

MCJournals == {<<>>, <<Legacy>>}
MCCalls == {
  [id |-> "i1", ask |-> "a"], [id |-> "i1", ask |-> "archive"],
  [id |-> "i2", ask |-> "archive"], [id |-> "none", ask |-> "read"]}
=============================================================================
