------------------------------ MODULE RoundLog ------------------------------
(***************************************************************************)
(* What content review promises to publication: for each skill one         *)
(* append-only log of rounds.  Whether a round is publishable is decided   *)
(* when it is written and never changes, the first round never is, and     *)
(* versions never go back.                                                 *)
(***************************************************************************)
EXTENDS Naturals, Sequences

CONSTANTS Slugs, MaxVersion

VARIABLE rounds  \* rounds[s]: the rounds of s, oldest first

RoundLogInit == rounds = [s \in Slugs |-> <<>>]

\* new is old and one more round.
Extends(old, new) ==
  LET last == new[Len(old) + 1] IN
  /\ new = Append(old, last)
  /\ old # <<>> => old[Len(old)].ver <= last.ver
  /\ last.ok => old # <<>>

\* One collection writes at most one round of each skill.
RoundLogNext ==
  /\ rounds' \in [Slugs -> Seq([ver : 1 .. MaxVersion, ok : BOOLEAN])]
  /\ \A s \in Slugs :
       LET old == rounds[s]
           new == rounds'[s]
       IN new # old => Len(new) > Len(old) /\ Extends(old, new)

RoundLogSpec == RoundLogInit /\ [][RoundLogNext]_rounds
=============================================================================
