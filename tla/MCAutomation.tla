---------------------------- MODULE MCAutomation ----------------------------
(* Three machines that share nothing but the artifacts they append: the    *)
(* capture of a working tree, the waves that scan what was captured, and   *)
(* the spending guard.  A behaviour runs one of them.                      *)
EXTENDS Intake, ScanWave, CostGate, TLC

VARIABLE part

vars == <<intakeVars, waveVars, gateVars, part>>

Init == IntakeInit /\ WaveInit /\ GateInit /\ part \in {"intake", "wave", "gate"}

Next ==
  \/ part = "intake" /\ IntakeNext /\ UNCHANGED <<waveVars, gateVars, part>>
  \/ part = "wave"   /\ WaveNext   /\ UNCHANGED <<intakeVars, gateVars, part>>
  \/ part = "gate"   /\ GateNext   /\ UNCHANGED <<intakeVars, waveVars, part>>

Spec == Init /\ [][Next]_vars

-----------------------------------------------------------------------------
(* Values for Intake.                                                      *)

MCSkills == <<"a", "b">>
MCTrees == {"treeA", "treeB", "spare", "shared"}
MCFirstRoots ==
  {[p \in {"a", "b", "_shared"} |->
     CASE p = "a" -> "treeA" [] p = "b" -> "treeB" [] p = "_shared" -> bundle]
   : bundle \in {"shared", "none"}}
MCNames == <<"SKILL.md", "notes.md", "review.json", "team-profile.md">>
Lies == [t \in MCTrees |->
           IF t = "shared" THEN {"team-profile.md"}
           ELSE IF t = "treeB" THEN {"SKILL.md"} ELSE {"SKILL.md", "notes.md"}]
MCFirstNodes ==
  [t \in MCTrees |-> [n \in Range(MCNames) |->
     [kind |-> IF n \in Lies[t] THEN "text" ELSE "absent", tree |-> t, rev |-> 0,
      refers |-> FALSE]]]

-----------------------------------------------------------------------------
(* Values for ScanWave.                                                    *)

MCContents == {"clean", "leaky", "hidden"}
MCCodesOf == [b \in MCContents |-> CASE b = "leaky"  -> [aws_access_key |-> 1]
                                   [] b = "hidden" -> [oversized |-> 2]
                                   [] b = "clean"  -> <<>>]
MCFilesOf == [b \in MCContents |-> IF b = "leaky" THEN {} ELSE {"notes.md", ".semgrepignore"}]
MCNormal == [p \in {"notes.md", ".semgrepignore"} |-> p]
Thing(slug, number, content) == [slug |-> slug, number |-> number, content |-> content]
MCSelections ==
  {<<Thing("t", 1, "leaky")>>, <<Thing("s", 1, "clean"), Thing("s", 1, "hidden")>>}
MCSetups == {[judge |-> TRUE, required |-> TRUE], [judge |-> FALSE, required |-> TRUE]}
Host == [configured |-> TRUE, approved |-> TRUE, digest |-> TRUE, pack |-> TRUE,
         engine |-> "runs", unseen |-> {}, silent |-> FALSE, found |-> <<>>]
MCHosts == {Host, [Host EXCEPT !.approved = FALSE], [Host EXCEPT !.engine = "timeout"],
            [Host EXCEPT !.unseen = {"notes.md"}, !.silent = TRUE]}
Ollama == [kappas |-> <<80, 75>>, sameFamily |-> FALSE, approved |-> TRUE, loopback |-> TRUE,
           pinned |-> TRUE, reply |-> 90]
MCJudges == {Ollama, [Ollama EXCEPT !.kappas = <<80, 65>>], [Ollama EXCEPT !.pinned = FALSE]}

-----------------------------------------------------------------------------
(* Values for CostGate.                                                    *)

Rule(decision, target) == [kind |-> "publish", decision |-> decision, target |-> target]
MCPolicies ==
  {[rules |-> <<Rule("require_signoff", "any")>>, default |-> "deny"],
   [rules |-> <<Rule("allow", "any"), Rule("deny", "catalog"), Rule("require_signoff", "any")>>,
    default |-> "allow"],
   [rules |-> <<Rule("allow", "any")>>, default |-> "deny"],
   [rules |-> <<Rule("deny", "elsewhere")>>, default |-> "require_signoff"]}

WaveSymmetry == Permutations(Waves)
=============================================================================
