---------------------------- MODULE MC_Operations ----------------------------
(***************************************************************************)
(* Three views of a request.  What the runner, its policy and its audit    *)
(* file make of any operation; what the handler of each operation does to  *)
(* the stores; and what the longest of them, the retrieval cascade, gets   *)
(* from its sources.  A behaviour is about one of them, and the others     *)
(* rest.  In what order the records of an answer come is a question asked  *)
(* in one step.                                                            *)
(***************************************************************************)
EXTENDS OperationGate, Operations, Retrieval, TLC

VARIABLES focus,       \* the view that the behaviour is about
          question     \* the lists that are put in order, or <<>>

requestsVars == <<focus, question, opVars, opsVars, retrievalVars>>

RequestsInit == /\ focus \in {"gate", "handlers", "cascade", "order"} /\ question = <<>>
                /\ OpInit /\ Init /\ RetrievalInit
                /\ focus # "gate" => request = CHOOSE r \in Request : TRUE

-----------------------------------------------------------------------------
(* Questions: two or three lists of records, some of which share an id or  *)
(* a url.                                                                  *)

Record(cid, url) == [cid |-> cid, url |-> url, title |-> 1, source |-> 0]
Mentioned == {Record(1, 1), Record(1, 2), Record(0, 1), Record(2, 2), Record(0, 0)}
ListOf(n, length) ==
    {[i \in DOMAIN list |-> [list[i] EXCEPT !.source = n]] : list \in UNION {[1 .. k -> Mentioned] : k \in 0 .. length}}

Order(lists, incorrect, limit, reply) ==
    \E fusion \in {"rrf", "concat"} :
       question' = [lists |-> lists, fusion |-> fusion, incorrect |-> incorrect, limit |-> limit, reply |-> reply]

AskForOrder == /\ focus = "order" /\ question = <<>>
               /\ \E first \in ListOf(1, 2), second \in ListOf(2, 2) :
                     \/ \E third \in ListOf(3, 1) : Order(<<first, second, third>>, {}, 20, <<>>)
                     \/ \E reply \in {<<>>, <<2, 1>>, <<7>>} : Order(<<first, second>>, {[Record(1, 1) EXCEPT !.source = 1]}, 2, reply)
               /\ UNCHANGED <<focus, opVars, opsVars, retrievalVars>>

RequestsNext ==
    \/ focus = "gate" /\ OpNext /\ UNCHANGED <<focus, question, opsVars, retrievalVars>>
    \/ focus = "handlers" /\ Next /\ UNCHANGED <<focus, question, opVars, retrievalVars>>
    \/ focus = "cascade" /\ RetrievalNext /\ UNCHANGED <<focus, question, opVars, opsVars>>
    \/ AskForOrder

RequestsSpec == RequestsInit /\ [][RequestsNext]_requestsVars

-----------------------------------------------------------------------------
\* Retrieval!AgreementComesFirst of every question.
AgreementRanksFirst ==
    question # <<>> => AgreementComesFirst(question.lists, question.fusion, question.incorrect, question.limit, question.reply)

-----------------------------------------------------------------------------
(* Instances. *)

\* One process asks two sources, one source twice, or one that nobody registered;
\* the other asks a source that they share.
MCCascades == [p \in Seekers |-> IF p = "first" THEN {<<"daily", "daily">>, <<"hourly", "daily">>, <<"hourly", "unknown">>}
                                 ELSE {<<"hourly">>}]
MCTtl == [s \in {"daily", "hourly"} |-> IF s = "daily" THEN 2 ELSE 1]

\* Runners are interchangeable.
RunnerSymmetry == Permutations(Runners)
=============================================================================
