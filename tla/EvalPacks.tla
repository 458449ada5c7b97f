------------------------------- MODULE EvalPacks -------------------------------
(***************************************************************************)
(* The bench packs (src/omni_hub/evals): a directory per pack with a file  *)
(* of cases and a manifest that counts them, and one index of all packs.   *)
(* The seed scripts fill packs, one case at a time; nothing takes a lock,  *)
(* and a process may die between two writes or within one.  Runs of a      *)
(* pack, graduations of preferred text, A/B verdicts (src/omni_hub/ab) and *)
(* optimizer records (src/omni_hub/optimizer) are rows of SQLite tables.   *)
(***************************************************************************)
EXTENDS Integers, Sequences, SequencesExt, FiniteSets

CONSTANTS Packs,            \* sequence of the packs of a seed script
          SeedCases,        \* the classes of the cases a pack is seeded with
          Scripts,          \* processes that seed or supersede packs
          MaxStarts,        \* bound: commands started
          MaxRecords,       \* bound: rows of a table
          AcceptedFloor     \* ACCEPTED_FLOOR

Classes == {"capability", "regression", "calibration"}
PackSet == ToSet(Packs)

\* A seed script seeds some packs.
ASSUME PacksAssumption == Packs \in Seq(PackSet) /\ Packs # <<>> /\ SeedCases \in Seq(Classes)

VARIABLES seed,       \* seed[p]: [there, lines] of seed.jsonl
          manifest,   \* manifest[p]: [text, counts]
          index,      \* manifest.json: [text, counts], counts of the packs in it
          script,     \* script[c]: what the process c does
          seedStarts,
          rows,       \* eval_runs, ab_runs and optimization_runs
          upgrade     \* upgrade[p]: the proposal to upgrade pack p

packVars == <<seed, manifest, index, script, seedStarts, rows, upgrade>>

NoCounts == [k \in Classes |-> 0]
NoScript == [at |-> "ended"]

PacksInit == /\ seed = [p \in PackSet |-> [there |-> FALSE, lines |-> <<>>]]
             /\ manifest = [p \in PackSet |-> [text |-> "none", counts |-> NoCounts]]
             /\ index = [text |-> "whole", counts |-> [p \in {} |-> NoCounts]]
             /\ script = [c \in Scripts |-> NoScript] /\ seedStarts = 0
             /\ rows = <<>> /\ upgrade = [p \in PackSet |-> "none"]

ScriptAt(c, place) == script[c].at = place
Goto(c, place) == script' = [script EXCEPT ![c].at = place]
Pack(c) == Head(script[c].packs)
FilesUnchanged == UNCHANGED <<seed, manifest, index>>
RecordsUnchanged == UNCHANGED <<rows, upgrade>>

-----------------------------------------------------------------------------
(* The seed script and the store under it. *)

StartSeed(c) ==
    /\ ScriptAt(c, "ended") /\ seedStarts < MaxStarts /\ seedStarts' = seedStarts + 1
    /\ script' = [script EXCEPT ![c] = [at |-> "get", packs |-> Packs, todo |-> <<>>, counts |-> NoCounts, seen |-> index.counts]]
    /\ FilesUnchanged /\ RecordsUnchanged

NextPack(c) == script' = [script EXCEPT ![c] = IF Len(@.packs) = 1 THEN NoScript
                                               ELSE [@ EXCEPT !.at = "get", !.packs = Tail(script[c].packs)]]

\* get_pack: a pack with a manifest is skipped; create_pack: one with cases is refused.
GetPack(c) ==
    /\ ScriptAt(c, "get")
    /\ \/ manifest[Pack(c)].text # "none" /\ NextPack(c)
       \/ manifest[Pack(c)].text = "none" /\ ~seed[Pack(c)].there /\ Goto(c, "touch")
       \/ manifest[Pack(c)].text = "none" /\ seed[Pack(c)].there /\ script' = [script EXCEPT ![c] = NoScript]
    /\ UNCHANGED seedStarts /\ FilesUnchanged /\ RecordsUnchanged

\* Mutant: the pack is created with the counts of the cases to come.
TouchSeedCounted(c) ==
    /\ ScriptAt(c, "touch")
    /\ seed' = [seed EXCEPT ![Pack(c)].there = TRUE]
    /\ script' = [script EXCEPT ![c] = [@ EXCEPT !.at = "manifest", !.todo = SeedCases, !.counts = [k \in Classes |-> 1]]]
    /\ UNCHANGED <<manifest, index, seedStarts>> /\ RecordsUnchanged

TouchSeed(c) ==
    /\ ScriptAt(c, "touch")
    /\ seed' = [seed EXCEPT ![Pack(c)].there = TRUE]
    /\ script' = [script EXCEPT ![c] = [@ EXCEPT !.at = "manifest", !.todo = SeedCases, !.counts = NoCounts]]
    /\ UNCHANGED <<manifest, index, seedStarts>> /\ RecordsUnchanged

WriteManifest(c) ==
    /\ ScriptAt(c, "manifest")
    /\ manifest' = [manifest EXCEPT ![Pack(c)] = [text |-> "whole", counts |-> script[c].counts]]
    /\ Goto(c, "read index")
    /\ UNCHANGED <<seed, index, seedStarts>> /\ RecordsUnchanged

\* An index that does not parse starts again from nothing.
ReadIndex(c) ==
    /\ ScriptAt(c, "read index")
    /\ script' = [script EXCEPT ![c] = [@ EXCEPT !.at = "write index",
                                                 !.seen = IF index.text = "cut" THEN [p \in {} |-> NoCounts] ELSE index.counts]]
    /\ UNCHANGED seedStarts /\ FilesUnchanged /\ RecordsUnchanged

UpdateIndex(c) ==
    /\ ScriptAt(c, "write index")
    /\ LET seen == script[c].seen IN
       index' = [text |-> "whole", counts |-> [p \in DOMAIN seen \cup {Pack(c)} |->
                                                   IF p = Pack(c) THEN script[c].counts ELSE seen[p]]]
    /\ IF script[c].todo = <<>> THEN NextPack(c) ELSE Goto(c, "append")
    /\ UNCHANGED <<seed, manifest, seedStarts>> /\ RecordsUnchanged

\* add_case: the line first, then the manifest and the index with the counts of
\* the pack object of this process.
AddCase(c) ==
    /\ ScriptAt(c, "append")
    /\ LET case == Head(script[c].todo) IN
       /\ seed' = [seed EXCEPT ![Pack(c)].lines = Append(@, case)]
       /\ script' = [script EXCEPT ![c] = [@ EXCEPT !.at = "manifest", !.todo = Tail(script[c].todo),
                                                    !.counts = [script[c].counts EXCEPT ![case] = @ + 1]]]
    /\ UNCHANGED <<manifest, index, seedStarts>> /\ RecordsUnchanged

\* supersede_pack writes back what it read of the manifest.
SupersedePack(c) ==
    /\ ScriptAt(c, "ended") /\ seedStarts < MaxStarts /\ seedStarts' = seedStarts + 1
    /\ \E p \in PackSet :
          /\ manifest[p].text = "whole"
          /\ script' = [script EXCEPT ![c] = [at |-> "manifest", packs |-> <<p>>, todo |-> <<>>, counts |-> manifest[p].counts, seen |-> index.counts]]
    /\ FilesUnchanged /\ RecordsUnchanged

ScriptDies(c) ==
    /\ ~ScriptAt(c, "ended")
    /\ script' = [script EXCEPT ![c] = NoScript]
    /\ \/ FilesUnchanged
       \/ ScriptAt(c, "manifest") /\ manifest' = [manifest EXCEPT ![Pack(c)].text = "cut"] /\ UNCHANGED <<seed, index>>
       \/ ScriptAt(c, "write index") /\ index' = [text |-> "cut", counts |-> [p \in {} |-> NoCounts]] /\ UNCHANGED <<seed, manifest>>
    /\ UNCHANGED seedStarts /\ RecordsUnchanged

-----------------------------------------------------------------------------
(* Rows. *)

RecordRoom == Len(rows) < MaxRecords
TablesOnly == UNCHANGED <<seed, manifest, index, script, seedStarts>>

\* A case goes to the adapter that its metadata names, or of its skill, or of the
\* wiki of its domain; without an adapter its own expected answer is judged.
PickAdapter(named, skill, adapters) ==
    IF named \in adapters THEN named ELSE IF skill \in adapters THEN skill ELSE "echo:no_adapter"

\* The mean of no case is 0, and a manifest without a path is no pack.
RunPack == /\ RecordRoom /\ \E p \in PackSet : /\ manifest[p].text = "whole" /\ seed[p].there
                                         /\ rows' = Append(rows, [table |-> "eval_runs", of |-> p, cases |-> Len(seed[p].lines)])
           /\ TablesOnly /\ UNCHANGED upgrade

\* Holdout cases are read only where the environment says so.
HoldoutRun(gateOpen) == /\ gateOpen /\ RecordRoom /\ rows' = Append(rows, [table |-> "eval_runs", of |-> "holdout", cases |-> 1])
                        /\ TablesOnly /\ UNCHANGED upgrade

\* The proposal's id is made of the domain and the version: promoted again, it is
\* pending again, whatever was decided.
ProposePackUpgrade == /\ \E p \in PackSet, accepted \in {AcceptedFloor - 1, AcceptedFloor} :
                            upgrade' = IF accepted < AcceptedFloor THEN upgrade ELSE [upgrade EXCEPT ![p] = "pending"]
                      /\ TablesOnly /\ UNCHANGED rows
DecideUpgrade == /\ \E p \in PackSet, d \in {"approved", "rejected"} :
                       upgrade[p] # "none" /\ upgrade' = [upgrade EXCEPT ![p] = d]
                 /\ TablesOnly /\ UNCHANGED rows

\* EvalGate.decide: thresholds and metrics are functions of the metrics' names.
GateDecision(holdouts, least, thresholds, metrics) ==
    IF holdouts < least \/ DOMAIN thresholds = {} THEN "needs_review"
    ELSE IF \A m \in DOMAIN thresholds : m \in DOMAIN metrics /\ metrics[m] >= thresholds[m] THEN "passed" ELSE "failed"

\* The difference of the two verdicts, in hundredths.
Classify(delta) ==
    LET size == IF delta < 0 THEN -delta ELSE delta IN
    [winner |-> IF size < 3 THEN "tie" ELSE IF delta > 0 THEN "b" ELSE "a",
     label |-> IF size < 3 THEN "tie" ELSE IF size < 10 THEN "marginal" ELSE IF size < 20 THEN "moderate" ELSE "decisive"]

RecordAB == /\ RecordRoom /\ \E d \in {-20, -3, 2, 10} :
                  rows' = Append(rows, [table |-> "ab_runs", of |-> Classify(d).winner, cases |-> 2])
            /\ TablesOnly /\ UNCHANGED upgrade

RecordOptimization ==
    /\ RecordRoom /\ \E holdouts \in 0 .. 1, score \in 0 .. 1 :
          rows' = Append(rows, [table |-> "optimization_runs", cases |-> holdouts,
                                of |-> GateDecision(holdouts, 1, [m \in {"accuracy"} |-> 1], [m \in {"accuracy"} |-> score])])
    /\ TablesOnly /\ UNCHANGED upgrade

WinRate(side) == Cardinality({i \in DOMAIN rows : rows[i].table = "ab_runs" /\ rows[i].of = side})

SeedNext == \E c \in Scripts : \/ StartSeed(c) \/ GetPack(c) \/ TouchSeed(c) \/ WriteManifest(c) \/ ReadIndex(c)
                               \/ UpdateIndex(c) \/ AddCase(c) \/ SupersedePack(c) \/ ScriptDies(c)
RowsNext == RunPack \/ (\E open \in BOOLEAN : HoldoutRun(open)) \/ ProposePackUpgrade \/ DecideUpgrade
            \/ RecordAB \/ RecordOptimization
PacksNext == SeedNext \/ RowsNext
PacksSpec == PacksInit /\ [][PacksNext]_packVars

-----------------------------------------------------------------------------
CasesOf(p, k) == Cardinality({i \in DOMAIN seed[p].lines : seed[p].lines[i] = k})

\* Whatever scripts run at a time and wherever they die, neither a manifest nor the
\* index counts a case that is not in the file of its pack.
CountsAreBacked ==
    \A p \in PackSet, k \in Classes :
        /\ manifest[p].text = "whole" => manifest[p].counts[k] <= CasesOf(p, k)
        /\ p \in DOMAIN index.counts => index.counts[p][k] <= CasesOf(p, k)
=============================================================================
