----------------------------- MODULE MCPipeline -----------------------------
(***************************************************************************)
(* Instances of EventPipeline for TLC.                                      *)
(***************************************************************************)
EXTENDS EventPipeline

CONSTANTS m, repo, d1, d2,      \* a real match, a repository, two demo matches
          k1, k2, k3           \* dedupe keys

Info(type, version, minute, side) ==
    [type |-> type, version |-> version, minute |-> minute, side |-> side,
     home |-> 0, away |-> 0]

OneToThree == 1 .. 3

\* A match that is over, and a repository fact observed twice, in partitions of
\* their own.
MixedKeyOf     == <<k1, k2, k2>>
MixedSubjectOf == <<m, repo, repo>>
MixedInfoOf    == <<Info("fulltime", 1, 90, "none"),
                    Info("other", 1, 0, "none"),
                    Info("other", 1, 0, "none")>>
MixedPartitionOf == [s \in {m, repo} |-> IF s = m THEN 1 ELSE 2]

\* A match that is over, a goal reported after full time, and the same goal
\* reported once more.
FinalKeyOf       == <<k1, k2, k2>>
FinalSubjectOf   == <<m, m, m>>
FinalInfoOf      == <<Info("fulltime", 1, 90, "none"),
                      Info("goal", 2, 91, "away"),
                      Info("goal", 3, 91, "away")>>

\* Two runs of the simulator, the first with a goal.
DemoKeyOf       == <<k1, k2, k3>>
DemoSubjectOf   == <<d1, d1, d2>>
DemoInfoOf      == <<Info("kickoff", 1, 0, "none"),
                     Info("goal", 2, 50, "home"),
                     Info("kickoff", 1, 0, "none")>>
DemoPartitionOf == [s \in {d1, d2} |-> 1]

\* One match in play.
LiveKeyOf       == <<k1, k2, k3>>
LiveSubjectOf   == <<m, m, m>>
LiveInfoOf      == <<Info("kickoff", 1, 0, "none"),
                     Info("goal", 2, 10, "home"),
                     Info("card", 3, 20, "away")>>
LivePartitionOf == [s \in {m} |-> 1]
=============================================================================
