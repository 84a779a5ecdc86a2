------------------------------- MODULE Intake -------------------------------
(***************************************************************************)
(* The capture of a wave's payloads from the working tree                  *)
(* (capture/intake.py and load_wave of wave.py): the shared bundle is read *)
(* once, then each skill directory, one file after the other, while        *)
(* editors change files, plant links and replace whole directories.  A     *)
(* directory is held open while it is read.                                *)
(***************************************************************************)
EXTENDS Naturals, Sequences, FiniteSets, SequencesExt

CONSTANTS
  Skills,      \* skill directories of the wave, in order
  Trees,       \* directory objects
  FirstRoots,  \* the object each path names at first, "none" if there is none
  FirstNodes,  \* the nodes of the objects at first
  Names,       \* file names, in the order they are read
  Canonical,   \* the names the shared bundle must consist of
  MaxFiles,    \* files in one payload
  MaxChanges   \* changes made to the tree

ASSUME IntakeAssumption ==
  /\ Skills \in Seq(Range(Skills)) /\ "_shared" \notin Range(Skills)
  /\ Names \in Seq(Range(Names))
  /\ "none" \notin Trees /\ "link" \notin Trees
  /\ FirstRoots \subseteq [Range(Skills) \cup {"_shared"} -> Trees \cup {"none", "link"}]
  /\ FirstNodes \in [Trees -> [Range(Names) ->
       [kind : {"absent", "text", "binary", "link"}, tree : Trees, rev : {0}, refers : BOOLEAN]]]
  /\ \A t \in Trees, n \in Range(Names) : FirstNodes[t][n].tree = t
  /\ MaxChanges \in Nat

Paths == Range(Skills) \cup {"_shared"}

\* A file: what kind of node, the object it lies in, which of its contents,
\* and whether its text refers to the shared bundle.
Node == [kind : {"absent", "text", "binary", "link"}, tree : Trees, rev : 0..MaxChanges,
         refers : BOOLEAN]

VARIABLES
  root,     \* the object each path names: a tree, "none" or "link"
  node,     \* the nodes of the objects
  changes,  \* changes made so far
  platform, \* "posix" or "nt"
  loader    \* the local state of load_wave

intakeVars == <<root, node, changes, platform, loader>>

Unset == [p \in {} |-> p]

Session == [path |-> "_shared", held |-> "none", list |-> {}, got |-> Unset, quiet |-> TRUE]

IntakeInit ==
  /\ root \in FirstRoots /\ node = FirstNodes /\ changes = 0
  /\ platform \in {"posix", "nt"}
  /\ loader = [pc |-> "open", todo |-> Skills, bundle |-> Unset, items |-> <<>>, s |-> Session]

\* Both sets of files; where they overlap, the first.
Together(f, g) ==
  [n \in DOMAIN f \cup DOMAIN g |-> IF n \in DOMAIN f THEN f[n] ELSE g[n]]

Target == loader.s.path

\* Mutant: what is not text is passed over.
PresentText(tree) == {n \in Range(Names) : node[tree][n].kind \in {"text", "link"}}

Present(tree) == {n \in Range(Names) : node[tree][n].kind # "absent"}

-----------------------------------------------------------------------------
(* The loader.                                                             *)

\* load_wave raises: nothing of the wave is captured.
RefuseTree == loader' = [loader EXCEPT !.pc = "refused"]

NextSkill(bundle, items, todo) ==
  loader' = [loader EXCEPT !.bundle = bundle, !.items = items, !.todo = todo,
               !.pc = IF todo = <<>> THEN "loaded" ELSE "open",
               !.s = IF todo = <<>> THEN Session ELSE [Session EXCEPT !.path = Head(todo)]]

\* Mutant: a link is opened like a directory.
LinkFollowed == root[Target] # "none"

Openable == root[Target] \in Trees

\* The root is opened without following a link, and held.
Open ==
  /\ loader.pc = "open"
  /\ \/ Openable /\ loader' = [loader EXCEPT !.pc = "list", !.s.held = root[Target]]
     \/ Target = "_shared" /\ root[Target] = "none"
        /\ NextSkill(Unset, loader.items, loader.todo)
     \/ root[Target] = "link" /\ RefuseTree
  /\ UNCHANGED <<root, node, changes, platform>>

Listable(tree) ==
  /\ \A n \in Range(Names) : node[tree][n].kind # "link"
  /\ Cardinality(Present(tree)) <= MaxFiles
  /\ "review.json" \notin Present(tree)
  /\ IF Target = "_shared" THEN Present(tree) = Canonical ELSE "SKILL.md" \in Present(tree)

\* The held directory is enumerated and the listing judged as a whole.
List ==
  /\ loader.pc = "list"
  /\ IF Listable(loader.s.held)
     THEN loader' = [loader EXCEPT !.pc = "read", !.s.list = Present(loader.s.held)]
     ELSE RefuseTree
  /\ UNCHANGED <<root, node, changes, platform>>

\* Mutant: the file is looked up through the path of the root.
ByPath(n) == IF root[Target] \in Trees THEN node[root[Target]][n] ELSE node[loader.s.held][n]

Opened(n) == node[loader.s.held][n]

\* The next listed file, opened relative to the held root without following
\* a link; a file that changed its kind since the listing is refused.
Read ==
  /\ loader.pc = "read"
  /\ \E k \in DOMAIN Names :
       /\ Names[k] \in loader.s.list /\ \A j \in 1..(k - 1) : Names[j] \notin loader.s.list
       /\ IF Opened(Names[k]).kind = "text"
          THEN loader' = [loader EXCEPT !.s.list = @ \ {Names[k]},
                 !.s.got = Together([n \in {Names[k]} |-> Opened(n)], @)]
          ELSE RefuseTree
  /\ UNCHANGED <<root, node, changes, platform>>

\* Mutant: the bundle is read again for every skill.
LatestBundle == IF root["_shared"] \in Trees
                THEN [n \in Canonical |-> node[root["_shared"]][n]] ELSE Unset

Bundle == loader.bundle

SharedIn(files) == DOMAIN files \cap Canonical

\* Mutant: the budget is that of the skill's own files.
BudgetBeforeMerge(merged) == TRUE

WithinBudget(merged) == Cardinality(DOMAIN merged) <= MaxFiles

Refers(files) == \E n \in DOMAIN files : files[n].refers

\* A skill's payload is its own files and the bundle; they may not overlap,
\* and what the texts refer to must be there.
Mergeable(own, merged) ==
  /\ SharedIn(own) = {} \/ Bundle = Unset
  /\ Refers(merged) => Canonical \subseteq DOMAIN merged
  /\ WithinBudget(merged)

Merge ==
  /\ loader.pc = "read" /\ loader.s.list = {}
  /\ IF Target = "_shared" THEN NextSkill(loader.s.got, loader.items, loader.todo)
     ELSE LET own == loader.s.got
              merged == Together(own, Bundle)
          IN IF Mergeable(own, merged)
             THEN NextSkill(loader.bundle,
                    Append(loader.items, [skill |-> Target, files |-> merged, own |-> DOMAIN own]),
                    Tail(loader.todo))
             ELSE RefuseTree
  /\ UNCHANGED <<root, node, changes, platform>>

-----------------------------------------------------------------------------
(* Editors of the tree.                                                    *)

\* A file is written, removed, or replaced by a link or binary data.
EditFile ==
  /\ changes < MaxChanges /\ loader.pc \in {"open", "list", "read"}
  /\ \E t \in Trees, n \in Range(Names), kind \in {"absent", "text", "binary", "link"},
        refers \in BOOLEAN :
       /\ t = "shared" => n \in Canonical
       /\ refers => kind = "text"
       /\ node' = [node EXCEPT ![t][n] =
            [kind |-> kind, tree |-> t, rev |-> changes + 1, refers |-> refers]]
       /\ loader' = [loader EXCEPT !.s.quiet = @ /\ t # loader.s.held]
  /\ changes' = changes + 1
  /\ UNCHANGED <<root, platform>>

\* A path is made to name another object or a link; Windows refuses while
\* the object it names is held.
Replace ==
  /\ changes < MaxChanges /\ loader.pc \in {"open", "list", "read"}
  /\ \E p \in Paths, new \in Trees \cup {"link"} :
       /\ root[p] \in Trees /\ (new \in Trees => \A q \in Paths : root[q] # new)
       /\ ~(platform = "nt" /\ p = Target /\ loader.pc # "open")
       /\ root' = [root EXCEPT ![p] = new]
  /\ changes' = changes + 1
  /\ UNCHANGED <<node, platform, loader>>

IntakeNext == Open \/ List \/ Read \/ Merge \/ EditFile \/ Replace

IntakeSpec == IntakeInit /\ [][IntakeNext]_intakeVars

-----------------------------------------------------------------------------
(* Properties.                                                             *)

\* The loader's state is well formed and it holds what it opened.
IntakeTypeOK ==
  /\ loader.pc \in {"open", "list", "read", "loaded", "refused"}
  /\ \A p \in Paths : root[p] \in Trees \cup {"none", "link"}
  /\ \A t \in Trees, n \in Range(Names) : node[t][n] \in Node
  /\ loader.pc \in {"list", "read"} => loader.s.held \in Trees

\* Every text a payload has of its own was read from one directory object,
\* the one held since the path was opened, whatever is renamed over the path
\* or linked inside it meanwhile (_read_posix_payload, _windows_root_session).
OneDirectory ==
  \A i \in DOMAIN loader.items :
    LET item == loader.items[i]
    IN \A m, n \in item.own : item.files[m].tree = item.files[n].tree

\* All payloads of one wave carry the same shared files, even when the bundle
\* is edited or replaced between two skills (load_wave reads it once).
OneBundle ==
  \A i, j \in DOMAIN loader.items :
    LET shared(k) == DOMAIN loader.items[k].files \ loader.items[k].own
    IN /\ shared(i) = shared(j)
       /\ \A n \in shared(i) : loader.items[i].files[n] = loader.items[j].files[n]

\* A payload that was taken is one that capture would accept: text only, with
\* its SKILL.md, no governance metadata, within the file limit after the
\* bundle was merged in, and with everything its texts refer to.
PayloadsAreWhole ==
  \A i \in DOMAIN loader.items :
    LET files == loader.items[i].files
    IN /\ "SKILL.md" \in DOMAIN files /\ "review.json" \notin DOMAIN files
       /\ Cardinality(DOMAIN files) <= MaxFiles
       /\ \A n \in DOMAIN files : files[n].kind = "text"
       /\ Refers(files) => Canonical \subseteq DOMAIN files

\* What is captured is one directory and one bundle, whole.
CaptureSound == IntakeTypeOK /\ OneDirectory /\ OneBundle /\ PayloadsAreWhole

Whole(tree) ==
  [n \in {n \in Range(Names) : node[tree][n].kind # "absent"} |-> node[tree][n]]

\* A skill whose directory nobody touched while it was read is captured as it
\* lies there: no file is left out, none is added but the bundle.
QuietIsExact ==
  [][Len(loader.items') > Len(loader.items) /\ loader.s.quiet =>
       LET item == Last(loader'.items)
       IN [n \in item.own |-> item.files[n]] = Whole(loader.s.held)]_intakeVars
=============================================================================
