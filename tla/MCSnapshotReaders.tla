------------------------- MODULE MCSnapshotReaders -------------------------
EXTENDS SnapshotReaders

MCRoleOf == [s \in Slugs |-> "role"]
MCQuality == <<Qualities, Qualities \ {"strict"}>>
MCExpected == [active |-> 2, declined |-> 0, roles |-> 1, target |-> 2]

Fresh == [k \in Contents |-> "none"]
At1(stage) == [Fresh EXCEPT ![1] = stage]
World(t, statuses, first, second, heads) ==
  [tree |-> t, registry |-> statuses,
   db |-> [stage |-> <<At1(first), At1(second)>>, head |-> heads, broken |-> {}]]

\* Released; one skill ready and one still to be written; a declined skill.
MCStarts ==
  {World(<<1, 1>>, <<"active", "active">>, "approved", "approved", <<1, 1>>),
   World(<<1, 0>>, <<"active", "unlisted">>, "ready", "none", <<0, 0>>),
   World(<<1, 1>>, <<"active", "declined">>, "captured", "approved", <<0, 1>>)}
=============================================================================
