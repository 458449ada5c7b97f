-------------------------------- MODULE Memory --------------------------------
(***************************************************************************)
(* What the hub remembers: the tables of src/omni_hub/memory.py, which an  *)
(* approved proposal is digested into in one transaction, the files of an  *)
(* agent's own memory (memory_tool.py), which every edit reads and writes  *)
(* as a whole, and captured pages (content_store.py).                      *)
(***************************************************************************)
EXTENDS Integers, Sequences, SequencesExt, FiniteSets

CONSTANTS Digests,       \* what may be digested: records [path, title, entities, relations]
          Keys, Agents, Paths, Marks,    \* Marks: the lines an edit may look for
          MaxDigests, MaxRecall, MaxEdits     \* bounds

VARIABLES documents,   \* documents[path]: the digest its row shows
          entities,    \* entities[name]: [confidence, evidence]
          relations,   \* rows {[relation, path, digest]}
          digested,    \* the digests of the memory, in order
          writer,      \* the digest whose transaction is open, what it has stored of it, and the table it would leave
          core,        \* core[key]: value
          recall,      \* rows [score, accessed] in order of creation
          files,       \* files[path] of the agent's memory: sequence of lines, or none
          edit,        \* edit[a]: what agent a is doing
          edits,       \* edits so far
          merged,      \* paths whose file an edit wrote over something it had not read
          captures     \* content ids with a stored raw file, and notes in the inbox

memVars == <<documents, entities, relations, digested, writer, core, recall, files, edit, edits, merged, captures>>
tables == <<documents, entities, relations, digested, writer, core, recall>>
toolVars == <<files, edit, edits, merged>>

NoEdit == [at |-> "idle"]
NoFile == [there |-> FALSE, lines |-> <<>>]
Empty == [x \in {} |-> {}]
NoWriter == [at |-> "idle"]

MemInit == /\ documents = Empty /\ entities = Empty /\ relations = {} /\ digested = <<>> /\ writer = NoWriter /\ core = Empty /\ recall = <<>>
           /\ files = [p \in Paths |-> NoFile] /\ edit = [a \in Agents |-> NoEdit] /\ edits = 0 /\ merged = {}
           /\ captures = [raw |-> {}, notes |-> 0]

-----------------------------------------------------------------------------
(* Tables. *)

Upserted(f, x, row) == [y \in DOMAIN f \cup {x} |-> IF y = x THEN row ELSE f[y]]

\* Mutant: a later row replaces the one there is.
UpsertEntityLast(table, name, evidence, confidence) ==
    Upserted(table, name, [confidence |-> confidence, evidence |-> evidence])

\* Kind and evidence follow the row of at least the confidence there is.
UpsertEntity(table, name, evidence, confidence) ==
    IF name \in DOMAIN table /\ table[name].confidence > confidence THEN table
    ELSE Upserted(table, name, [confidence |-> confidence, evidence |-> evidence])

TitleConfidence == 8      \* 0.8; confidences are in tenths

Mentions(d) == <<[name |-> d.title, confidence |-> TitleConfidence]>> \o d.entities

\* What a digest says is a list, with numbers for confidences.
ASSUME DigestsAssumption ==
    \A n \in DOMAIN Digests :
       LET said == Mentions(Digests[n])
       IN  said \in Seq(Range(said)) /\ \A i \in DOMAIN said : said[i].confidence \in Int

\* A write takes the lock of the database until its transaction ends.
Unlocked == writer = NoWriter
Stored == UNCHANGED <<documents, entities, relations, digested>>
DigestOnly == UNCHANGED <<core, recall, captures>> /\ UNCHANGED toolVars

DigestProposal(n) ==
    /\ Unlocked /\ Len(digested) < MaxDigests
    /\ writer' = [at |-> "open", digest |-> n, done |-> 0, table |-> entities]
    /\ Stored /\ DigestOnly

\* The title, then the entities, in the order of the proposal.
StoreMention ==
    /\ writer.at = "open"
    /\ LET said == Mentions(Digests[writer.digest])
           next == writer.done + 1
       IN /\ next \in DOMAIN said
          /\ writer' = [at |-> "open", digest |-> writer.digest, done |-> next,
                        table |-> UpsertEntity(writer.table, said[next].name, writer.digest, said[next].confidence)]
    /\ Stored /\ DigestOnly

\* The rows of the document and its relations, and the commit of all.
CommitDigest ==
    /\ writer.at = "open"
    /\ LET d == Digests[writer.digest]
       IN /\ writer.done = Len(Mentions(d))
          /\ documents' = Upserted(documents, d.path, writer.digest)
          /\ relations' = {r \in relations : r.relation \notin d.relations \/ r.path # d.path}
                          \cup {[relation |-> rel, path |-> d.path, digest |-> writer.digest] : rel \in d.relations}
    /\ entities' = writer.table /\ digested' = Append(digested, writer.digest)
    /\ writer' = NoWriter /\ DigestOnly

\* An exception or a death rolls the transaction back.
DigestDies == writer.at = "open" /\ writer' = NoWriter /\ Stored /\ DigestOnly

\* Documents and entities with the term, and the relations of those entities.
Search(name) ==
    [documents |-> {p \in DOMAIN documents : Digests[documents[p]].title = name},
     entities |-> {name} \cap DOMAIN entities,
     relations |-> IF name \in DOMAIN entities THEN {r \in relations : name \in r.relation} ELSE {}]

OnlyCore == Unlocked /\ UNCHANGED <<documents, entities, relations, digested, writer, recall, captures>> /\ UNCHANGED toolVars
RememberCore == (\E k \in Keys, v \in 1 .. 2 : core' = Upserted(core, k, v)) /\ OnlyCore
ForgetCore == (\E k \in DOMAIN core : core' = [j \in DOMAIN core \ {k} |-> core[j]]) /\ OnlyCore

OnlyRecall == Unlocked /\ UNCHANGED <<documents, entities, relations, digested, writer, core, captures>> /\ UNCHANGED toolVars
PromoteToRecall == /\ Len(recall) < MaxRecall
                   /\ \E score \in 1 .. 2 : recall' = Append(recall, [score |-> score, accessed |-> 0])
                   /\ OnlyRecall

\* The best rows first, of equal score the newest; a row that is found is counted.
Better(i, j) == recall[i].score > recall[j].score \/ (recall[i].score = recall[j].score /\ i > j)
Best(limit) == {i \in DOMAIN recall : Cardinality({j \in DOMAIN recall : Better(j, i)}) < limit}
RecallSearch == /\ \E limit \in 1 .. 2 :
                      recall' = [i \in DOMAIN recall |->
                                   IF i \in Best(limit) /\ recall[i].accessed < 2      \* bound of the model
                                   THEN [recall[i] EXCEPT !.accessed = @ + 1] ELSE recall[i]]
                /\ recall # <<>> /\ OnlyRecall

\* The raw file is named by its content, the note by the second of its capture.
StoreCapture == /\ captures.notes < MaxRecall
                /\ \E content \in 1 .. 2 : captures' = [raw |-> captures.raw \cup {content}, notes |-> captures.notes + 1]
                /\ UNCHANGED tables /\ UNCHANGED toolVars

-----------------------------------------------------------------------------
(* The agent's files.  A change resolves its path, reads, and writes. *)

Free(a) == edit[a].at = "idle" /\ edits < MaxEdits /\ edits' = edits + 1
ToolOnly == UNCHANGED tables /\ UNCHANGED captures
TextOf(p) == files[p].lines

\* create writes over a file that is there.
CreateFile(a) == /\ Free(a) /\ \E p \in Paths, m \in Marks : files' = [files EXCEPT ![p] = [there |-> TRUE, lines |-> <<m>>]]
                 /\ UNCHANGED <<edit, merged>> /\ ToolOnly
DeleteFile(a) == /\ Free(a) /\ \E p \in Paths : files[p].there /\ files' = [files EXCEPT ![p] = NoFile]
                 /\ UNCHANGED <<edit, merged>> /\ ToolOnly
RenameFile(a) == /\ Free(a)
                 /\ \E p, q \in Paths : /\ files[p].there /\ ~files[q].there
                                        /\ files' = [files EXCEPT ![q] = files[p], ![p] = NoFile]
                 /\ UNCHANGED <<edit, merged>> /\ ToolOnly

Count(p, m) == Cardinality({i \in DOMAIN TextOf(p) : TextOf(p)[i] = m})

\* Reads of str_replace and insert; a text found twice is refused.
StrReplace(a) ==
    /\ Free(a)
    /\ \E p \in Paths, old, new \in Marks :
          /\ files[p].there /\ Count(p, old) = 1
          /\ edit' = [edit EXCEPT ![a] = [at |-> "write", path |-> p, read |-> TextOf(p),
                                          text |-> [i \in DOMAIN TextOf(p) |-> IF TextOf(p)[i] = old THEN new ELSE TextOf(p)[i]]]]
    /\ UNCHANGED <<files, merged>> /\ ToolOnly
InsertLine(a) ==
    /\ Free(a)
    /\ \E p \in Paths, m \in Marks : \E at \in 0 .. Len(TextOf(p)) :
          /\ files[p].there
          /\ edit' = [edit EXCEPT ![a] = [at |-> "write", path |-> p, read |-> TextOf(p), text |-> InsertAt(TextOf(p), at + 1, m)]]
    /\ UNCHANGED <<files, merged>> /\ ToolOnly

WriteText(a) ==
    /\ edit[a].at = "write"
    /\ LET p == edit[a].path IN
       /\ files' = [files EXCEPT ![p] = [there |-> TRUE, lines |-> edit[a].text]]
       /\ merged' = IF files[p] = [there |-> TRUE, lines |-> edit[a].read] THEN merged ELSE merged \cup {p}
    /\ edit' = [edit EXCEPT ![a] = NoEdit]
    /\ UNCHANGED edits /\ ToolOnly

DigestNext == (\E n \in DOMAIN Digests : DigestProposal(n)) \/ StoreMention \/ CommitDigest \/ DigestDies
MemoryTablesNext == DigestNext \/ RememberCore \/ ForgetCore \/ PromoteToRecall \/ RecallSearch \/ StoreCapture
ToolNext == \E a \in Agents : CreateFile(a) \/ DeleteFile(a) \/ RenameFile(a) \/ StrReplace(a) \/ InsertLine(a) \/ WriteText(a)
MemNext == MemoryTablesNext \/ ToolNext
MemSpec == MemInit /\ [][MemNext]_memVars

-----------------------------------------------------------------------------
\* The first k mentions of digest n, which is the at-th of the memory; and all that was said.
MentionsOf(at, n, k) == LET said == Mentions(Digests[n])
                        IN  {[at |-> at, name |-> said[i].name, confidence |-> said[i].confidence, evidence |-> n] : i \in 1 .. k}
Said == UNION {MentionsOf(i, digested[i], Len(Mentions(Digests[digested[i]]))) : i \in DOMAIN digested}

\* A table knows every name and no other, by its most confident mention, the latest of equals.
MoreConfident(o, m) == o.confidence > m.confidence \/ (o.confidence = m.confidence /\ o.at > m.at)
BestOf(name, said) == {m \in said : m.name = name /\ \A o \in said : o.name = name => ~MoreConfident(o, m)}
Knows(table, said) ==
    /\ DOMAIN table = {m.name : m \in said}
    /\ \A name \in DOMAIN table :
          \E m \in BestOf(name, said) : table[name] = [confidence |-> m.confidence, evidence |-> m.evidence]

\* The digest that is the latest of its path.
LatestAt(path) == {i \in DOMAIN digested : /\ Digests[digested[i]].path = path
                                          /\ \A j \in DOMAIN digested : Digests[digested[j]].path = path => j <= i}
ShowsLatest ==
    /\ DOMAIN documents = {Digests[digested[i]].path : i \in DOMAIN digested}
    /\ \A path \in DOMAIN documents : \E i \in LatestAt(path) : documents[path] = digested[i]

\* Whatever order proposals are digested in, however often, and wherever a digest dies, an
\* entity is known by the evidence of the most confident mention, the latest of equals, a
\* document by the latest digest of its path, and nothing that was committed goes missing.
KnownByTheBest == Knows(entities, Said) /\ ShowsLatest

=============================================================================
