------------------------- MODULE ClaimLedgerProofs -------------------------
(***************************************************************************)
(* Proofs about ClaimLedger.tla, for any claims and any number of processes*)
(* that interleave their file accesses and die between them.               *)
(*                                                                         *)
(* The argument: whatever a file or a copy holds is a whole ledger, and    *)
(* every whole ledger is linked at both ends, because the one edit that    *)
(* sets superseded_by sets supersedes in the same copy.  So lost and       *)
(* reordered rewrites change which links exist, never half of one.         *)
(*                                                                         *)
(* The second part is about operations that do not overlap, which is what  *)
(* the properties about index, log and findings are stated for.            *)
(***************************************************************************)
EXTENDS ClaimLedger, TLAPS

Edits == {"supersede"} \cup ReviewStates

Versions == {Version(f) : f \in File}

Args == Seq(Claims \cup Versions \cup {None})

Applying == {"list", "readIds", "append"}

\* What the programs are made of.
GoodStep(step) ==
    /\ step.do \in Applying => step.args \in Proposals
    /\ step.do \notin Applying => step.args \in Args
    /\ step.do \in ReviewStates \cup {"unlist", "prune"} =>
          Len(step.args) >= 1 /\ step.args[1] \in Claims
    /\ step.do = "supersede" => /\ Len(step.args) >= 2
                               /\ step.args[1] \in Claims /\ step.args[2] \in Claims
                               /\ step.args[1] # step.args[2]
    /\ step.do = "log" => step.args \in Pairs

Accesses == Edits \cup Applying \cup {"read", "replace", "unlist", "prune", "log", "approve"}

AnyStep == {step \in [do : Accesses, args : Args \cup Proposals] : GoodStep(step)}

\* Accesses that write what the one before them has read.
Informed == Edits \cup {"append"}

Informs(s, t) == /\ t.do \in Edits => s.do = "read" /\ s.args = t.args
                 /\ t.do = "append" => s.do = "readIds"

\* Every such access in a program comes right behind the read.
EditsFollowReads(t) ==
    \A i \in 1 .. Len(t) : t[i].do \in Informed /\ i > 1 => Informs(t[i - 1], t[i])

Program(t) == /\ t \in Seq(AnyStep)
              /\ EditsFollowReads(t)
              /\ t # <<>> => t[1].do \notin Informed

\* Two programs in a row are a program.
LEMMA Concatenation ==
    ASSUME NEW t, NEW u, Program(t), Program(u)
    PROVE  Program(t \o u)
<1>1. t \o u \in Seq(AnyStep)
  BY DEF Program
<1>2. /\ Len(t) \in Nat /\ Len(u) \in Nat /\ Len(t \o u) = Len(t) + Len(u)
      /\ \A i \in 1 .. Len(t) : (t \o u)[i] = t[i]
      /\ \A i \in 1 .. Len(u) : (t \o u)[Len(t) + i] = u[i]
  BY DEF Program
<1>3. ASSUME NEW i \in 1 .. Len(t \o u), (t \o u)[i].do \in Informed
      PROVE  i > 1 /\ Informs((t \o u)[i - 1], (t \o u)[i])
  <2>1. CASE i <= Len(t)
    BY <1>2, <1>3, <2>1 DEF Program, EditsFollowReads
  <2>2. CASE i > Len(t)
    <3> DEFINE j == i - Len(t)
    <3>1. j \in 1 .. Len(u) /\ (t \o u)[i] = u[j]
      BY <1>2, <2>2
    <3>2. j > 1
      BY <1>3, <3>1 DEF Program
    <3>3. (t \o u)[i - 1] = u[j - 1]
      BY <1>2, <3>1, <3>2
    <3> QED BY <1>2, <1>3, <3>1, <3>2, <3>3 DEF Program, EditsFollowReads
  <2> QED BY <1>2, <2>1, <2>2
<1> QED BY <1>1, <1>2, <1>3 DEF Program, EditsFollowReads

\* One step that writes nothing it would have to read before is a program.
LEMMA SingleStep ==
    ASSUME NEW do \in Accesses, do \notin Informed, NEW args \in Args \cup Proposals,
           GoodStep(Step(do, args))
    PROVE  Program(<<Step(do, args)>>)
<1>1. Step(do, args) \in AnyStep
  BY DEF AnyStep, Step
<1> QED BY <1>1 DEF Program, EditsFollowReads, Step

\* One rewrite is a program.
LEMMA RewriteProgram ==
    ASSUME NEW edit \in Edits, NEW args \in Args,
           GoodStep(Step(edit, args))
    PROVE  Program(Rewrite(edit, args))
<1>1. /\ Step("read", args) \in AnyStep /\ Step(edit, args) \in AnyStep
      /\ Step("replace", args) \in AnyStep
  <2>1. {edit, "read", "replace"} \subseteq Accesses /\ {edit, "read", "replace"} \cap Applying = {}
    BY DEF Accesses, Applying, Informed, Edits, ReviewStates
  <2>2. Step(edit, args) \in AnyStep
    BY <2>1 DEF AnyStep, Step
  <2>3. Step("read", args) \in AnyStep
    BY <2>1 DEF AnyStep, Step, GoodStep, ReviewStates
  <2>4. Step("replace", args) \in AnyStep
    BY <2>1 DEF AnyStep, Step, GoodStep, ReviewStates
  <2> QED BY <2>2, <2>3, <2>4
<1>2. Rewrite(edit, args) \in Seq(AnyStep) /\ Len(Rewrite(edit, args)) = 3
  BY <1>1 DEF Rewrite
<1>3. /\ Rewrite(edit, args)[1] = Step("read", args) /\ Rewrite(edit, args)[2] = Step(edit, args)
      /\ Rewrite(edit, args)[3] = Step("replace", args)
  BY DEF Rewrite
<1>4. "read" \notin Informed /\ "replace" \notin Informed
  BY DEF Informed, Edits, ReviewStates
<1>5. Informs(Step("read", args), Step(edit, args))
  BY DEF Informs, Step, Edits, ReviewStates
<1> QED BY <1>2, <1>3, <1>4, <1>5 DEF Program, EditsFollowReads, Step

\* Every operation starts a program.
LEMMA ApplyIsProgram ==
    ASSUME NEW proposal \in Proposals
    PROVE  Program(ApplyProgram(proposal))
<1>1. ASSUME NEW do \in Applying
      PROVE  Step(do, proposal) \in AnyStep
  BY <1>1 DEF AnyStep, Step, GoodStep, Accesses, Applying, ReviewStates
<1>2. ApplyProgram(proposal) \in Seq(AnyStep) /\ Len(ApplyProgram(proposal)) = 3
  BY <1>1 DEF ApplyProgram, Applying
<1> QED BY <1>2 DEF Program, EditsFollowReads, ApplyProgram, Step, Informed, Informs, Edits, ReviewStates

LEMMA SupersedeIsProgram ==
    ASSUME NEW new \in Claims, NEW old \in Claims, new # old, NEW version \in Versions \cup {None}
    PROVE  Program(SupersedeProgram(new, old, version))
<1>1. /\ <<new, old, version>> \in Args /\ Len(<<new, old, version>>) = 3
      /\ <<new, old>> \in Args /\ <<new, old>> \in Pairs
      /\ <<old>> \in Args /\ Len(<<old>>) = 1
  BY DEF Args, Pairs
<1>2. Program(Rewrite("supersede", <<new, old, version>>))
  BY <1>1, RewriteProgram DEF GoodStep, Step, Edits, Applying, ReviewStates
<1>3. Step("log", <<new, old>>) \in AnyStep /\ Step("unlist", <<old>>) \in AnyStep
  <2> DEFINE pair == <<new, old>>
             one == <<old>>
  <2>1. pair \in Args /\ pair \in Pairs /\ one \in Args /\ Len(one) = 1 /\ one[1] \in Claims
    BY <1>1
  <2> HIDE DEF pair, one
  <2>2. Step("log", pair) \in AnyStep
    BY <2>1 DEF AnyStep, GoodStep, Step, Accesses, Applying, ReviewStates
  <2>3. Step("unlist", one) \in AnyStep
    <3>1. GoodStep(Step("unlist", one))
      BY <2>1 DEF GoodStep, Step, Applying, ReviewStates
    <3> QED BY <2>1, <3>1 DEF AnyStep, Step, Accesses
  <2> QED BY <2>2, <2>3 DEF pair, one
<1>4. Program(<<Step("log", <<new, old>>), Step("unlist", <<old>>)>>)
  BY <1>3 DEF Program, EditsFollowReads, Step, Informed, Edits, ReviewStates
<1> QED BY <1>2, <1>4, Concatenation DEF SupersedeProgram

LEMMA ResolveIsProgram ==
    ASSUME NEW new \in Claims, NEW old \in Claims, new # old, NEW version \in Versions \cup {None},
           NEW program \in ResolvePrograms(new, old, version)
    PROVE  Program(program)
<1> DEFINE approve == <<Step("approve", <<new, old>>)>>
           mark(c, state) == Rewrite(state, <<c>>)
           prune(c) == <<Step("prune", <<c>>)>>
<1>1. <<new, old>> \in Args /\ \A c \in {new, old} : <<c>> \in Args /\ Len(<<c>>) = 1
  BY DEF Args
<1>2. Program(approve)
  BY <1>1, SingleStep DEF GoodStep, Step, Accesses, Applying, Informed, Edits, ReviewStates
<1>3. ASSUME NEW c \in {new, old}, NEW state \in ReviewStates
      PROVE  Program(mark(c, state))
  BY <1>1, RewriteProgram DEF GoodStep, Step, Edits, Applying, ReviewStates
<1>4. ASSUME NEW c \in {new, old}
      PROVE  Program(prune(c))
  BY <1>1, SingleStep DEF GoodStep, Step, Accesses, Applying, Informed, Edits, ReviewStates
<1>5. "conflict" \in ReviewStates /\ "rejected" \in ReviewStates
  BY DEF ReviewStates
<1>6. Program(mark(new, "conflict") \o mark(old, "conflict") \o approve)
  BY <1>2, <1>3, <1>5, Concatenation
<1>7. /\ Program(mark(old, "rejected") \o prune(old) \o approve)
      /\ Program(mark(new, "rejected") \o prune(new) \o approve)
  BY <1>2, <1>3, <1>4, <1>5, Concatenation
<1>8. Program(SupersedeProgram(new, old, version) \o approve)
  BY <1>2, SupersedeIsProgram, Concatenation
<1> QED BY <1>6, <1>7, <1>8 DEF ResolvePrograms

\* What is left of a program begins with such an access only behind the read.
LEMMA RestOfProgram ==
    ASSUME NEW t \in Seq(AnyStep), t # <<>>, EditsFollowReads(t)
    PROVE  /\ Head(t) \in AnyStep
           /\ Tail(t) \in Seq(AnyStep)
           /\ EditsFollowReads(Tail(t))
           /\ Tail(t) # <<>> /\ Head(Tail(t)).do \in Informed => Informs(Head(t), Head(Tail(t)))
<1>1. Head(t) = t[1] /\ Len(t) \in Nat \ {0} /\ Head(t) \in AnyStep
  OBVIOUS
<1>2. /\ Tail(t) \in Seq(AnyStep) /\ Len(Tail(t)) = Len(t) - 1
      /\ \A i \in 1 .. Len(Tail(t)) : Tail(t)[i] = t[i + 1]
  OBVIOUS
<1>3. EditsFollowReads(Tail(t))
  BY <1>1, <1>2 DEF EditsFollowReads
<1>4. Tail(t) # <<>> => Len(t) >= 2 /\ Head(Tail(t)) = t[2]
  BY <1>1, <1>2
<1> QED BY <1>1, <1>2, <1>3, <1>4 DEF EditsFollowReads

-----------------------------------------------------------------------------
(* What an edit leaves as it is. *)

\* The rows of a claim, one by one.
LEMMA RowFacts ==
    ASSUME NEW f \in File, NEW c \in Claims
    PROVE  /\ f[c] \in Seq(Row) /\ Len(f[c]) \in Nat /\ DOMAIN f[c] = 1 .. Len(f[c])
           /\ \A i \in 1 .. Len(f[c]) : f[c][i] \in Row /\ f[c][i] \in Rows(f, c)
           /\ \A row \in Rows(f, c) : row \in Row /\ \E i \in 1 .. Len(f[c]) : row = f[c][i]
           /\ c \in Known(f) <=> Len(f[c]) >= 1
<1>1. f[c] \in Seq(Row)
  BY DEF File
<1>2. Len(f[c]) \in Nat /\ DOMAIN f[c] = 1 .. Len(f[c]) /\ \A i \in 1 .. Len(f[c]) : f[c][i] \in Row
  BY <1>1
<1>3. f[c] = <<>> <=> Len(f[c]) = 0
  BY <1>1
<1> QED BY <1>1, <1>2, <1>3 DEF Rows, Known

\* m is a later ledger than l: no row is gone, no claim is open or approved again.
Later(l, m) ==
    \A c \in Claims :
        /\ Len(l[c]) <= Len(m[c])
        /\ \A i \in 1 .. Len(l[c]) : /\ l[c][i].page = m[c][i].page
                                     /\ l[c][i].supersedes \subseteq m[c][i].supersedes
                                     /\ l[c][i].state # "approved" => m[c][i].state # "approved"
                                     /\ l[c][i].closed => m[c][i].closed

\* What l says of a row is said of the same row in m.
LEMMA LaterRow ==
    ASSUME NEW l \in File, NEW m \in File, Later(l, m), NEW c \in Claims, NEW row \in Rows(l, c)
    PROVE  \E other \in Rows(m, c) : /\ other.page = row.page
                                     /\ row.supersedes \subseteq other.supersedes
                                     /\ row.state # "approved" => other.state # "approved"
<1>1. PICK i \in 1 .. Len(l[c]) : row = l[c][i]
  BY RowFacts
<1>2. i \in 1 .. Len(m[c]) /\ m[c][i] \in Rows(m, c)
  BY RowFacts DEF Later
<1> QED BY <1>1, <1>2 DEF Later

\* A later ledger whose links are the old ones, or led back, is linked.
LEMMA LaterIsLinked ==
    ASSUME NEW l \in File, NEW m \in File, Linked(l), Later(l, m),
           \A c \in Claims : \A row \in Rows(m, c) : row.by # None =>
               \/ \E before \in Rows(l, c) : before.by = row.by
               \/ \E other \in Rows(m, row.by) : c \in other.supersedes
    PROVE  Linked(m)
<1> SUFFICES ASSUME NEW c \in Claims, NEW row \in Rows(m, c), row.by # None
             PROVE  \E other \in Rows(m, row.by) : c \in other.supersedes
  BY DEF Linked
<1>1. CASE \E before \in Rows(l, c) : before.by = row.by
  <2>1. row.by \in Claims
    BY RowFacts DEF Row
  <2>2. PICK other \in Rows(l, row.by) : c \in other.supersedes
    BY <1>1 DEF Linked
  <2>3. \E after \in Rows(m, row.by) : other.supersedes \subseteq after.supersedes
    BY <2>1, <2>2, LaterRow
  <2> QED BY <2>2, <2>3
<1>2. CASE \E other \in Rows(m, row.by) : c \in other.supersedes
  BY <1>2
<1> QED BY <1>1, <1>2

LEMMA EmptyIsLinked == NoLines \in File /\ Linked(NoLines)
<1>1. <<>> \in Seq(Row)
  OBVIOUS
<1>2. NoLines \in File /\ \A c \in Claims : NoLines[c] = <<>>
  BY <1>1 DEF NoLines, File
<1>3. ASSUME NEW c \in Claims PROVE Rows(NoLines, c) = {}
  <2>1. Len(NoLines[c]) = 0
    BY <1>2
  <2> QED BY <1>2, <2>1, RowFacts
<1> QED BY <1>2, <1>3 DEF Linked

\* The last row of a claim is replaced.
LEMMA EditLastFacts ==
    ASSUME NEW f \in File, NEW c \in Known(f), NEW row \in Row
    PROVE  LET m == EditLast(f, c, row)
           IN  /\ m \in File
               /\ Len(m[c]) = Len(f[c]) /\ Len(f[c]) \in Nat \ {0} /\ LastRow(f, c) \in Row
               /\ m[c][Len(f[c])] = row
               /\ \A i \in 1 .. Len(f[c]) : i # Len(f[c]) => m[c][i] = f[c][i]
               /\ \A d \in Claims \ {c} : m[d] = f[d]
<1> DEFINE n == Len(f[c])
           rows == [f[c] EXCEPT ![n] = row]
<1>1. c \in Claims /\ n \in Nat \ {0} /\ f[c] \in Seq(Row) /\ LastRow(f, c) \in Row
  BY RowFacts DEF Known, LastRow
<1>2. /\ rows \in Seq(Row) /\ Len(rows) = n /\ rows[n] = row
      /\ \A i \in 1 .. n : i # n => rows[i] = f[c][i]
  BY <1>1
<1>3. EditLast(f, c, row) = [f EXCEPT ![c] = rows]
  BY DEF EditLast
<1> HIDE DEF rows
<1>4. /\ [f EXCEPT ![c] = rows] \in File /\ [f EXCEPT ![c] = rows][c] = rows
      /\ \A d \in Claims \ {c} : [f EXCEPT ![c] = rows][d] = f[d]
  BY <1>1, <1>2 DEF File
<1> QED BY <1>1, <1>2, <1>3, <1>4

\* The edits of a row.
LEMMA ClosedByFacts ==
    ASSUME NEW row \in Row, NEW new \in Claims
    PROVE  /\ ClosedBy(row, new) \in Row
           /\ ClosedBy(row, new).closed /\ ClosedBy(row, new).by = new
           /\ ClosedBy(row, new).state # "approved"
           /\ ClosedBy(row, new).supersedes = row.supersedes /\ ClosedBy(row, new).page = row.page
<1>1. (IF row.state = "rejected" THEN row.state ELSE "superseded") \in ReviewStates \ {"approved"}
  BY DEF ReviewStates
<1>2. ClosedBy(row, new) = [row EXCEPT !.closed = TRUE, !.by = new,
                                !.state = IF row.state = "rejected" THEN row.state ELSE "superseded"]
  BY DEF ClosedBy, Row
<1> QED BY <1>1, <1>2 DEF Row

LEMMA ExtendingFacts ==
    ASSUME NEW row \in Row, NEW old \in Claims
    PROVE  /\ Extending(row, old) \in Row /\ old \in Extending(row, old).supersedes
           /\ Extending(row, old).supersedes = row.supersedes \cup {old}
           /\ Extending(row, old).closed = row.closed /\ Extending(row, old).by = row.by
           /\ Extending(row, old).state = row.state /\ Extending(row, old).page = row.page
BY DEF Extending, Row

LEMMA LaterOrSame == ASSUME NEW l \in File PROVE Later(l, l)
<1>1. ASSUME NEW c \in Claims PROVE Len(l[c]) <= Len(l[c])
  BY RowFacts
<1> QED BY <1>1 DEF Later

\* Superseding closes and links the last rows of two claims.
LEMMA SupersedeFacts ==
    ASSUME NEW l \in File, Linked(l), NEW new \in Known(l), NEW old \in Known(l), new # old
    PROVE  LET m == Supersede(l, new, old)
           IN  /\ m \in File /\ Linked(m) /\ Later(l, m)
               /\ \A c \in Claims : Len(m[c]) = Len(l[c])
               /\ \E row \in Rows(m, new) : old \in row.supersedes
               /\ \E row \in Rows(m, old) : row.state # "approved" /\ row.page = LastRow(l, old).page
<1> DEFINE half == EditLast(l, old, ClosedBy(LastRow(l, old), new))
           m == Supersede(l, new, old)
           n == Len(l[new])
           o == Len(l[old])
<1>1. new \in Claims /\ old \in Claims /\ n \in Nat \ {0} /\ o \in Nat \ {0}
      /\ LastRow(l, old) = l[old][o] /\ LastRow(l, new) = l[new][n] /\ l[old][o] \in Row /\ l[new][n] \in Row
  BY RowFacts DEF Known, LastRow
<1>2. /\ half \in File /\ Len(half[old]) = o /\ half[old][o] = ClosedBy(l[old][o], new)
      /\ \A i \in 1 .. o : i # o => half[old][i] = l[old][i]
      /\ \A d \in Claims \ {old} : half[d] = l[d]
  <2>1. ClosedBy(l[old][o], new) \in Row
    BY <1>1, ClosedByFacts
  <2> QED BY <1>1, <2>1, EditLastFacts
<1>3. new \in Known(half)
  BY <1>1, <1>2 DEF Known
<1> HIDE DEF half, n, o
<1>4. m = EditLast(half, new, Extending(l[new][n], old))
  BY <1>1 DEF Supersede, half
<1> HIDE DEF m
<1>5. /\ m \in File /\ Len(m[new]) = n /\ m[new][n] = Extending(l[new][n], old)
      /\ \A i \in 1 .. n : i # n => m[new][i] = l[new][i]
      /\ \A d \in Claims \ {new} : m[d] = half[d]
  <2>1. half[new] = l[new] /\ Len(half[new]) = n
    BY <1>1, <1>2 DEF n
  <2>2. Extending(l[new][n], old) \in Row
    BY <1>1, ExtendingFacts
  <2> QED BY <1>1, <1>2, <1>3, <1>4, <2>1, <2>2, EditLastFacts
<1>6. /\ Len(m[old]) = o /\ m[old][o] = ClosedBy(l[old][o], new)
      /\ \A i \in 1 .. o : i # o => m[old][i] = l[old][i]
      /\ \A d \in Claims \ {old, new} : m[d] = l[d]
  BY <1>1, <1>2, <1>5
<1>7. \A c \in Claims : Len(m[c]) = Len(l[c]) /\ Len(l[c]) \in Nat
  BY <1>5, <1>6, RowFacts DEF n, o
<1>8. ASSUME NEW c \in Claims, NEW i \in 1 .. Len(l[c])
      PROVE  /\ l[c][i].page = m[c][i].page /\ l[c][i].supersedes \subseteq m[c][i].supersedes
             /\ l[c][i].state # "approved" => m[c][i].state # "approved"
             /\ l[c][i].closed => m[c][i].closed
             /\ m[c][i].by = l[c][i].by \/ (c = old /\ m[c][i].by = new)
  <2>1. CASE c = old
    BY <1>1, <1>6, <2>1, ClosedByFacts DEF o
  <2>2. CASE c = new
    BY <1>1, <1>5, <2>2, ExtendingFacts DEF n
  <2>3. CASE c \notin {old, new}
    BY <1>6, <2>3
  <2> QED BY <2>1, <2>2, <2>3
<1>9. Later(l, m)
  <2>1. ASSUME NEW c \in Claims PROVE Len(l[c]) <= Len(m[c])
    <3>1. Len(l[c]) \in Nat /\ Len(m[c]) = Len(l[c])
      BY <1>7
    <3> QED BY <3>1
  <2> QED BY <1>8, <2>1 DEF Later
<1>10. \E row \in Rows(m, new) : old \in row.supersedes
  <2>1. n \in 1 .. Len(m[new]) /\ m[new][n] \in Rows(m, new)
    BY <1>1, <1>5, RowFacts
  <2> QED BY <1>1, <1>5, <2>1, ExtendingFacts
<1>11. \E row \in Rows(m, old) : row.state # "approved" /\ row.page = LastRow(l, old).page
  <2>1. o \in 1 .. Len(m[old]) /\ m[old][o] \in Rows(m, old)
    BY <1>1, <1>5, <1>6, RowFacts
  <2> QED BY <1>1, <1>6, <2>1, ClosedByFacts
<1>12. ASSUME NEW c \in Claims, NEW row \in Rows(m, c), row.by # None
       PROVE  \/ \E before \in Rows(l, c) : before.by = row.by
              \/ \E other \in Rows(m, row.by) : c \in other.supersedes
  <2>1. PICK i \in 1 .. Len(l[c]) : row = m[c][i]
    BY <1>5, <1>7, RowFacts
  <2>2. l[c][i] \in Rows(l, c)
    BY RowFacts
  <2> QED BY <1>8, <1>10, <2>1, <2>2
<1>13. Linked(m)
  BY <1>5, <1>9, <1>12, LaterIsLinked
<1> QED BY <1>5, <1>7, <1>9, <1>10, <1>11, <1>13 DEF m

\* A mark changes the review state of every row of a claim.
LEMMA MarkFacts ==
    ASSUME NEW l \in File, Linked(l), NEW c0 \in Known(l), NEW state \in ReviewStates
    PROVE  LET m == Mark(l, c0, state)
           IN  /\ m \in File /\ Linked(m)
               /\ state # "approved" => Later(l, m)
               /\ \A c \in Claims : Len(m[c]) = Len(l[c])
               /\ m[c0][1].state = state /\ m[c0][1] \in Rows(m, c0)
               /\ m[c0][1].page = l[c0][1].page
<1> DEFINE rows == [i \in 1 .. Len(l[c0]) |-> [l[c0][i] EXCEPT !.state = state]]
           m == Mark(l, c0, state)
<1>1. /\ c0 \in Claims /\ Len(l[c0]) \in Nat \ {0} /\ 1 \in 1 .. Len(l[c0])
      /\ \A i \in 1 .. Len(l[c0]) : l[c0][i] \in Row
  BY RowFacts DEF Known
<1>2. ASSUME NEW i \in 1 .. Len(l[c0])
      PROVE  /\ rows[i] \in Row /\ rows[i].state = state /\ rows[i].page = l[c0][i].page
             /\ rows[i].by = l[c0][i].by /\ rows[i].supersedes = l[c0][i].supersedes
             /\ rows[i].closed = l[c0][i].closed
  BY <1>1 DEF Row
<1>3. DOMAIN rows = 1 .. Len(l[c0])
  OBVIOUS
<1>4. m = [l EXCEPT ![c0] = rows]
  BY DEF Mark
<1> HIDE DEF m
<1>5. rows \in Seq(Row) /\ Len(rows) = Len(l[c0])
  <2>1. rows \in [1 .. Len(l[c0]) -> Row]
    BY <1>2
  <2> HIDE DEF rows
  <2> QED BY <1>1, <2>1
<1> HIDE DEF rows
<1>6. m \in File /\ m[c0] = rows /\ \A d \in Claims \ {c0} : m[d] = l[d]
  BY <1>1, <1>4, <1>5 DEF File
<1>7. \A c \in Claims : Len(m[c]) = Len(l[c]) /\ Len(l[c]) \in Nat
  BY <1>5, <1>6, RowFacts
<1>8. ASSUME NEW c \in Claims, NEW i \in 1 .. Len(l[c])
      PROVE  /\ l[c][i].page = m[c][i].page /\ l[c][i].supersedes = m[c][i].supersedes
             /\ l[c][i].closed = m[c][i].closed /\ m[c][i].by = l[c][i].by
             /\ m[c][i].state = IF c = c0 THEN state ELSE l[c][i].state
  BY <1>2, <1>6
<1>9. state # "approved" => Later(l, m)
  <2>1. ASSUME NEW c \in Claims PROVE Len(l[c]) <= Len(m[c])
    <3>1. Len(l[c]) \in Nat /\ Len(m[c]) = Len(l[c])
      BY <1>7
    <3> QED BY <3>1
  <2>2. ASSUME state # "approved", NEW c \in Claims, NEW i \in 1 .. Len(l[c])
        PROVE  /\ l[c][i].page = m[c][i].page /\ l[c][i].supersedes \subseteq m[c][i].supersedes
               /\ l[c][i].state # "approved" => m[c][i].state # "approved"
               /\ l[c][i].closed => m[c][i].closed
    BY <1>8, <2>2
  <2> QED BY <2>1, <2>2 DEF Later
<1>10. Linked(m)
  <2> SUFFICES ASSUME NEW c \in Claims, NEW row \in Rows(m, c), row.by # None
               PROVE  \E other \in Rows(m, row.by) : c \in other.supersedes
    BY DEF Linked
  <2>1. PICK i \in 1 .. Len(l[c]) : row = m[c][i]
    BY <1>6, <1>7, RowFacts
  <2>2. row.by \in Claims /\ l[c][i] \in Rows(l, c) /\ l[c][i].by = row.by
    BY <1>6, <1>8, <2>1, RowFacts DEF Row
  <2>3. PICK other \in Rows(l, row.by) : c \in other.supersedes
    BY <2>2 DEF Linked
  <2>4. PICK j \in 1 .. Len(l[row.by]) : other = l[row.by][j]
    BY <2>2, <2>3, RowFacts
  <2>5. m[row.by][j] \in Rows(m, row.by) /\ m[row.by][j].supersedes = other.supersedes
    BY <1>6, <1>7, <1>8, <2>2, <2>4, RowFacts
  <2> QED BY <2>3, <2>5
<1>11. m[c0][1].state = state /\ m[c0][1] \in Rows(m, c0) /\ m[c0][1].page = l[c0][1].page
  BY <1>1, <1>6, <1>7, <1>8, RowFacts
<1> QED BY <1>6, <1>7, <1>9, <1>10, <1>11 DEF m

\* An edit of a ledger that holds the claims it names.
LEMMA EditFacts ==
    ASSUME NEW l \in File, Linked(l), NEW step \in AnyStep, step.do \in Edits,
           Targets(step) \subseteq Known(l)
    PROVE  LET m == Edit(l, step)
               c == step.args[1]
               old == step.args[2]
           IN  /\ m \in File /\ Linked(m)
               /\ \A d \in Claims : Len(m[d]) = Len(l[d])
               /\ step.do # "approved" => Later(l, m)
               /\ step.do = "supersede" =>
                     /\ c \in Claims /\ old \in Known(l)
                     /\ \E row \in Rows(m, c) : old \in row.supersedes
                     /\ \E row \in Rows(m, old) : row.state # "approved" /\ row.page = LastRow(l, old).page
               /\ step.do # "supersede" =>
                     /\ c \in Known(l) /\ m[c][1].state = step.do /\ m[c][1] \in Rows(m, c)
<1>1. Len(step.args) \in Nat
  BY DEF AnyStep, GoodStep, Args, Applying, Edits, ReviewStates
<1>2. CASE step.do = "supersede"
  <2>1. /\ step.args[1] \in Known(l) /\ step.args[2] \in Known(l) /\ step.args[1] # step.args[2]
        /\ step.args[1] \in Claims
    BY <1>1, <1>2 DEF AnyStep, GoodStep, Targets
  <2>2. Edit(l, step) = Supersede(l, step.args[1], step.args[2])
    BY <1>2 DEF Edit
  <2> QED BY <1>2, <2>1, <2>2, SupersedeFacts
<1>3. CASE step.do # "supersede"
  <2>1. step.do \in ReviewStates /\ step.args[1] \in Known(l)
    BY <1>1, <1>3 DEF AnyStep, GoodStep, Targets, Edits
  <2>2. Edit(l, step) = Mark(l, step.args[1], step.do)
    BY <1>3 DEF Edit
  <2> QED BY <1>3, <2>1, <2>2, MarkFacts
<1> QED BY <1>2, <1>3

\* A new row, the claim's first or a further one, keeps the ledger linked.
LEMMA AppendFacts ==
    ASSUME NEW l \in File, Linked(l), NEW c \in Claims, NEW page \in Pages
    PROVE  LET m == [l EXCEPT ![c] = Append(l[c], NewRow(page))]
           IN  /\ m \in File /\ Linked(m) /\ Later(l, m)
               /\ \A d \in Claims : \A row \in Rows(m, d) : row \in Rows(l, d) \/ row = NewRow(page)
<1> DEFINE rows == Append(l[c], NewRow(page))
           m == [l EXCEPT ![c] = rows]
<1>1. NewRow(page) \in Row /\ NewRow(page).by = None
  BY DEF NewRow, Row, ReviewStates
<1>2. /\ l[c] \in Seq(Row) /\ Len(l[c]) \in Nat
      /\ rows \in Seq(Row) /\ Len(rows) = Len(l[c]) + 1
      /\ \A i \in 1 .. Len(l[c]) : rows[i] = l[c][i]
      /\ rows[Len(l[c]) + 1] = NewRow(page)
  BY <1>1, RowFacts
<1> HIDE DEF rows
<1>3. m \in File /\ m[c] = rows /\ \A d \in Claims \ {c} : m[d] = l[d]
  BY <1>2 DEF File
<1> HIDE DEF m
<1>4. Later(l, m)
  <2>1. ASSUME NEW d \in Claims PROVE Len(l[d]) <= Len(m[d])
    <3>1. Len(l[d]) \in Nat /\ (Len(m[d]) = Len(l[d]) \/ Len(m[d]) = Len(l[d]) + 1)
      BY <1>2, <1>3, RowFacts
    <3> QED BY <3>1
  <2>2. ASSUME NEW d \in Claims, NEW i \in 1 .. Len(l[d]) PROVE m[d][i] = l[d][i]
    BY <1>2, <1>3
  <2> QED BY <2>1, <2>2 DEF Later
<1>5. ASSUME NEW d \in Claims, NEW row \in Rows(m, d)
      PROVE  row \in Rows(l, d) \/ row = NewRow(page)
  <2>1. PICK i \in 1 .. Len(m[d]) : row = m[d][i]
    BY <1>3, RowFacts
  <2>2. CASE d # c
    BY <1>3, <2>1, <2>2, RowFacts
  <2>3. CASE d = c
    <3>1. i \in 1 .. Len(l[c]) \/ i = Len(l[c]) + 1
      BY <1>2, <1>3, <2>1, <2>3
    <3> QED BY <1>2, <1>3, <2>1, <2>3, <3>1, RowFacts
  <2> QED BY <2>2, <2>3
<1>6. Linked(m)
  BY <1>1, <1>3, <1>4, <1>5, LaterIsLinked
<1> QED BY <1>3, <1>4, <1>5, <1>6 DEF m, rows

-----------------------------------------------------------------------------
(* The invariant. *)

\* What lies in files and copies is a linked ledger.
FilesLinked == /\ Linked(ledger)
               /\ tmp # None => Linked(tmp)
               /\ \A p \in Procs : copy[p] # None => Linked(copy[p])

ProgramsGood == \A p \in Procs : todo[p] \in Seq(AnyStep) /\ EditsFollowReads(todo[p])

\* A process about to edit holds a copy with the claims it names, one about to
\* append the rows it found.
CopyAtHand == \A p \in Procs :
    /\ Editing(p) => copy[p] \in File /\ Linked(copy[p]) /\ Targets(Now(p)) \subseteq Known(copy[p])
    /\ Ready(p, "append") => copy[p] \in File /\ Linked(copy[p])

LedgerInv == /\ LedgerTypeOK
             /\ todo = [p \in Procs |-> todo[p]]
             /\ FilesLinked
             /\ ProgramsGood
             /\ CopyAtHand

LEMMA LedgerInvInit == LedgerInit => LedgerInv
<1> SUFFICES ASSUME LedgerInit PROVE LedgerInv
  OBVIOUS
<1>1. LedgerTypeOK
  <2>1. ledger \in File /\ tmp \in File \cup {None}
    BY EmptyIsLinked DEF LedgerInit
  <2>2. /\ handle \in [Procs -> {"none", "tmp", "ledger", "gone"}]
        /\ copy \in [Procs -> File \cup {None}]
        /\ finding \in [Twosomes -> FindingStates]
    BY DEF LedgerInit, FindingStates
  <2>3. /\ index \subseteq Pages /\ log \subseteq Pairs
        /\ garbled \in BOOLEAN /\ torn \in BOOLEAN /\ alone \in BOOLEAN
    BY DEF LedgerInit
  <2>4. ops \in 0 .. MaxOps
    BY LedgerAssumption DEF LedgerInit
  <2> QED BY <2>1, <2>2, <2>3, <2>4 DEF LedgerTypeOK
<1>2. FilesLinked
  BY EmptyIsLinked DEF LedgerInit, FilesLinked
<1>3. ProgramsGood /\ CopyAtHand
  BY DEF LedgerInit, ProgramsGood, CopyAtHand, EditsFollowReads, Editing, Ready
<1> QED BY <1>1, <1>2, <1>3 DEF LedgerInv, LedgerInit

\* The two parts about programs, for any step of p that goes on to the next
\* access, or gives up, and changes nobody else's program or copy.
LEMMA OwnProgram ==
    ASSUME LedgerInv, NEW p \in Procs,
           \A q \in Procs \ {p} : copy'[q] = copy[q],
           \/ Abort(p)
           \/ /\ todo[p] # <<>> /\ Advance(p)
              /\ Now(p).do \in {"read", "readIds"} => copy'[p] \in File /\ Linked(copy'[p])
              /\ Now(p).do = "read" => Targets(Now(p)) \subseteq Known(copy'[p])
    PROVE  ProgramsGood' /\ CopyAtHand' /\ todo' = [q \in Procs |-> todo'[q]]
<1> USE DEF LedgerInv
<1>1. CASE Abort(p)
  <2>1. todo'[p] = <<>> /\ \A q \in Procs \ {p} : todo'[q] = todo[q]
    BY <1>1 DEF Abort
  <2>2. todo' = [q \in Procs |-> todo'[q]]
    BY <1>1 DEF Abort
  <2>3. <<>> \in Seq(AnyStep) /\ EditsFollowReads(<<>>)
    BY DEF EditsFollowReads
  <2>4. ProgramsGood'
    BY <2>1, <2>3 DEF ProgramsGood
  <2>5. ~Editing(p)' /\ ~(Ready(p, "append")')
    BY <2>1 DEF Editing, Ready
  <2>6. CopyAtHand'
    BY <2>1, <2>5 DEF CopyAtHand, Editing, Ready, Now
  <2> QED BY <2>2, <2>4, <2>6
<1>2. CASE /\ todo[p] # <<>> /\ Advance(p)
           /\ Now(p).do \in {"read", "readIds"} => copy'[p] \in File /\ Linked(copy'[p])
           /\ Now(p).do = "read" => Targets(Now(p)) \subseteq Known(copy'[p])
  <2>1. todo'[p] = Tail(todo[p]) /\ \A q \in Procs \ {p} : todo'[q] = todo[q]
    BY <1>2 DEF Advance
  <2>2. todo' = [q \in Procs |-> todo'[q]]
    BY <1>2 DEF Advance
  <2>3. /\ Tail(todo[p]) \in Seq(AnyStep)
        /\ EditsFollowReads(Tail(todo[p]))
        /\ Tail(todo[p]) # <<>> /\ Head(Tail(todo[p])).do \in Informed =>
              Informs(Head(todo[p]), Head(Tail(todo[p])))
    BY <1>2, RestOfProgram DEF ProgramsGood
  <2>4. ProgramsGood'
    BY <2>1, <2>3 DEF ProgramsGood
  <2>5. Editing(p)' => copy'[p] \in File /\ Linked(copy'[p]) /\ Targets(Now(p)') \subseteq Known(copy'[p])
    BY <1>2, <2>1, <2>3 DEF Editing, Now, Edits, Informed, Informs, Targets
  <2>6. Ready(p, "append")' => copy'[p] \in File /\ Linked(copy'[p])
    BY <1>2, <2>1, <2>3 DEF Ready, Now, Edits, ReviewStates, Informed, Informs
  <2>7. CopyAtHand'
    BY <2>1, <2>5, <2>6 DEF CopyAtHand, Editing, Ready, Now
  <2> QED BY <2>2, <2>4, <2>7
<1> QED BY <1>1, <1>2

\* The current step of a process.
LEMMA NowIsStep ==
    ASSUME LedgerInv, NEW p \in Procs, todo[p] # <<>>
    PROVE  Now(p) \in AnyStep
BY RestOfProgram DEF LedgerInv, ProgramsGood, Now

\* What an append adds to ledger and copy.
LEMMA NowAppends ==
    ASSUME LedgerInv, NEW p \in Procs, Ready(p, "append")
    PROVE  Now(p).args.page \in Pages /\ Missing(p) \subseteq Claims /\ copy[p] \in File /\ Linked(copy[p])
<1>1. Now(p).args \in Proposals
  BY NowIsStep DEF Ready, AnyStep, GoodStep, Applying
<1>2. Now(p).args.page \in Pages /\ Now(p).args.claims \in SUBSET Claims
  BY <1>1, LedgerAssumption
<1> QED BY <1>2 DEF LedgerInv, CopyAtHand, Missing

LEMMA LedgerInvStep == LedgerInv /\ [LedgerNext]_ledgerVars => LedgerInv'
<1> SUFFICES ASSUME LedgerInv, [LedgerNext]_ledgerVars PROVE LedgerInv'
  OBVIOUS
<1> USE DEF LedgerInv
<1> DEFINE Programs == ProgramsGood' /\ CopyAtHand' /\ todo' = [q \in Procs |-> todo'[q]]
<1>1. ASSUME NEW p \in Procs, Start(p)
      PROVE  LedgerInv'
  <2>1. PICK program : Program(program) /\ todo' = [todo EXCEPT ![p] = program]
    <3> DEFINE version == IF Versioned THEN Version(ledger) ELSE None
    <3>1. version \in Versions \cup {None}
      BY DEF Versions, LedgerTypeOK
    <3> HIDE DEF version
    <3>2. CASE \E proposal \in Proposals : todo' = [todo EXCEPT ![p] = ApplyProgram(proposal)]
      BY <3>2, ApplyIsProgram
    <3>3. CASE \E pair \in Pairs : todo' = [todo EXCEPT ![p] = SupersedeProgram(pair[1], pair[2], version)]
      BY <3>1, <3>3, SupersedeIsProgram DEF Pairs
    <3>4. CASE \E pair \in Pairs : \E program \in ResolvePrograms(pair[1], pair[2], version) :
                  todo' = [todo EXCEPT ![p] = program]
      BY <3>1, <3>4, ResolveIsProgram DEF Pairs
    <3> QED BY <1>1, <3>2, <3>3, <3>4 DEF Start, version
  <2>2. todo'[p] = program /\ (\A q \in Procs \ {p} : todo'[q] = todo[q])
        /\ todo' = [q \in Procs |-> todo'[q]]
    BY <2>1
  <2>3. ProgramsGood'
    BY <2>1, <2>2 DEF Program, ProgramsGood
  <2>4. ~Editing(p)' /\ ~(Ready(p, "append")')
    <3>1. program # <<>> => Head(program) = program[1] /\ program[1].do \notin Informed
      BY <2>1 DEF Program
    <3> QED BY <2>2, <3>1 DEF Editing, Ready, Now, Edits, Informed
  <2>5. CopyAtHand'
    BY <1>1, <2>2, <2>4 DEF CopyAtHand, Editing, Ready, Now, Start
  <2>6. alone' \in BOOLEAN
    BY <1>1 DEF Start, LedgerTypeOK
  <2>7. LedgerTypeOK'
    BY <1>1, <2>6, LedgerAssumption DEF Start, LedgerTypeOK, ledgerFiles, bookFiles
  <2>8. FilesLinked'
    BY <1>1 DEF Start, FilesLinked, ledgerFiles
  <2> QED BY <2>2, <2>3, <2>5, <2>7, <2>8
<1>2. ASSUME NEW p \in Procs, Kill(p)
      PROVE  LedgerInv'
  <2>1. Programs
    BY <1>2, OwnProgram DEF Kill, LedgerTypeOK
  <2>2. LedgerTypeOK'
    BY <1>2 DEF Kill, LedgerTypeOK
  <2>3. FilesLinked'
    BY <1>2 DEF Kill, FilesLinked, LedgerTypeOK
  <2> QED BY <2>1, <2>2, <2>3
<1>3. ASSUME NEW p \in Procs, Read(p)
      PROVE  LedgerInv'
  <2>1. Programs
    <3>1. CASE Abort(p) /\ UNCHANGED copy
      BY <3>1, OwnProgram
    <3>2. CASE Targets(Now(p)) \subseteq Known(ledger) /\ copy' = [copy EXCEPT ![p] = ledger] /\ Advance(p)
      <4>1. copy'[p] = ledger /\ \A q \in Procs \ {p} : copy'[q] = copy[q]
        BY <3>2 DEF LedgerTypeOK
      <4> QED BY <1>3, <3>2, <4>1, OwnProgram DEF Read, Ready, FilesLinked, LedgerTypeOK
    <3> QED BY <1>3, <3>1, <3>2 DEF Read
  <2>2. LedgerTypeOK'
    BY <1>3 DEF Read, LedgerTypeOK, ledgerFiles, bookFiles
  <2>3. FilesLinked'
    BY <1>3 DEF Read, FilesLinked, LedgerTypeOK, ledgerFiles
  <2> QED BY <2>1, <2>2, <2>3
<1>4. ASSUME NEW p \in Procs, OpenTmp(p)
      PROVE  LedgerInv'
  <2>1. Programs
    BY <1>4 DEF OpenTmp, ProgramsGood, CopyAtHand, Editing, Ready, Now
  <2>2. LedgerTypeOK'
    BY <1>4, EmptyIsLinked DEF OpenTmp, LedgerTypeOK, bookFiles
  <2>3. FilesLinked'
    BY <1>4, EmptyIsLinked DEF OpenTmp, FilesLinked
  <2> QED BY <2>1, <2>2, <2>3
<1>5. ASSUME NEW p \in Procs, WriteTmp(p)
      PROVE  LedgerInv'
  <2> DEFINE new == Edit(copy[p], Now(p))
  <2>1. Editing(p) /\ todo[p] # <<>> /\ Now(p).do \in Edits /\ Now(p).do \notin {"read", "readIds"}
    BY <1>5 DEF WriteTmp, Editing, Edits, ReviewStates
  <2>2. new \in File /\ Linked(new)
    BY <2>1, NowIsStep, EditFacts DEF CopyAtHand
  <2>3. tmp' \in {tmp, new} /\ ledger' \in {ledger, new} /\ garbled' \in BOOLEAN /\ UNCHANGED copy
    BY <1>5 DEF WriteTmp
  <2> HIDE DEF new
  <2>4. Programs
    BY <1>5, <2>1, <2>3, OwnProgram DEF WriteTmp
  <2>5. LedgerTypeOK'
    BY <1>5, <2>2, <2>3 DEF WriteTmp, LedgerTypeOK, bookFiles
  <2>6. FilesLinked'
    BY <2>2, <2>3 DEF FilesLinked
  <2> QED BY <2>4, <2>5, <2>6
<1>6. ASSUME NEW p \in Procs, Replace(p)
      PROVE  LedgerInv'
  <2>1. todo[p] # <<>> /\ Now(p).do \notin {"read", "readIds"} /\ (Abort(p) \/ Advance(p))
    BY <1>6 DEF Replace, Ready
  <2>2. copy' \in {copy, [copy EXCEPT ![p] = None]}
    BY <1>6 DEF Replace
  <2>3. copy' \in [Procs -> File \cup {None}] /\ \A q \in Procs : copy'[q] \in {copy[q], None}
    BY <2>2 DEF LedgerTypeOK
  <2>4. Programs
    BY <2>1, <2>2, OwnProgram DEF LedgerTypeOK
  <2>5. LedgerTypeOK'
    BY <1>6, <2>3 DEF Replace, LedgerTypeOK, bookFiles
  <2>6. FilesLinked'
    BY <1>6, <2>3 DEF Replace, FilesLinked
  <2> QED BY <2>4, <2>5, <2>6
<1>7. ASSUME NEW p \in Procs, ReadIds(p)
      PROVE  LedgerInv'
  <2>1. todo[p] # <<>> /\ Now(p).do = "readIds" /\ Advance(p)
        /\ copy'[p] = ledger /\ \A q \in Procs \ {p} : copy'[q] = copy[q]
    BY <1>7 DEF ReadIds, Ready, LedgerTypeOK
  <2>2. Programs
    BY <2>1, OwnProgram DEF FilesLinked, LedgerTypeOK
  <2>3. LedgerTypeOK'
    BY <1>7 DEF ReadIds, LedgerTypeOK, ledgerFiles, bookFiles
  <2>4. FilesLinked'
    BY <1>7 DEF ReadIds, FilesLinked, LedgerTypeOK, ledgerFiles
  <2> QED BY <2>2, <2>3, <2>4
<1>8. ASSUME NEW p \in Procs, AppendRow(p)
      PROVE  LedgerInv'
  <2> DEFINE page == Now(p).args.page
             rows(f, c) == [f EXCEPT ![c] = Append(f[c], NewRow(page))]
  <2>1. PICK c \in Missing(p) : ledger' = rows(ledger, c) /\ copy' = [copy EXCEPT ![p] = rows(copy[p], c)]
    BY <1>8 DEF AppendRow
  <2>2. Ready(p, "append") /\ page \in Pages /\ c \in Claims /\ copy[p] \in File /\ Linked(copy[p])
        /\ ledger \in File /\ Linked(ledger)
    BY <1>8, NowAppends DEF AppendRow, LedgerTypeOK, FilesLinked
  <2>3. /\ rows(ledger, c) \in File /\ Linked(rows(ledger, c))
        /\ rows(copy[p], c) \in File /\ Linked(rows(copy[p], c))
    <3>1. PICK pg \in Pages : pg = page
      BY <2>2
    <3>2. ASSUME NEW f \in File, Linked(f)
          PROVE  rows(f, c) \in File /\ Linked(rows(f, c))
      <4>1. rows(f, c) = [f EXCEPT ![c] = Append(f[c], NewRow(pg))]
        BY <3>1
      <4>2. LET m == [f EXCEPT ![c] = Append(f[c], NewRow(pg))] IN m \in File /\ Linked(m)
        BY <2>2, <3>2, AppendFacts
      <4> HIDE DEF rows
      <4> QED BY <4>1, <4>2
    <3> HIDE DEF rows, page
    <3> QED BY <2>2, <3>2
  <2> HIDE DEF rows
  <2>4. copy'[p] = rows(copy[p], c) /\ (\A q \in Procs \ {p} : copy'[q] = copy[q])
        /\ copy' \in [Procs -> File \cup {None}]
    BY <2>1, <2>3 DEF LedgerTypeOK
  <2>5. Programs
    <3>1. todo' = todo /\ ~Editing(p)
      BY <1>8, <2>2 DEF AppendRow, Editing, Ready, ReviewStates
    <3> QED BY <2>2, <2>3, <2>4, <3>1 DEF ProgramsGood, CopyAtHand, Editing, Ready, Now
  <2>6. LedgerTypeOK'
    BY <1>8, <2>1, <2>3, <2>4 DEF AppendRow, LedgerTypeOK, bookFiles
  <2>7. FilesLinked'
    BY <1>8, <2>1, <2>3, <2>4 DEF AppendRow, FilesLinked
  <2> QED BY <2>5, <2>6, <2>7
<1>9. ASSUME NEW p \in Procs, CloseLedger(p)
      PROVE  LedgerInv'
  <2>1. todo[p] # <<>> /\ Now(p).do \notin {"read", "readIds"} /\ Advance(p)
        /\ copy' = [copy EXCEPT ![p] = None]
    BY <1>9 DEF CloseLedger, Ready
  <2>2. Programs
    BY <2>1, OwnProgram DEF LedgerTypeOK
  <2>3. LedgerTypeOK'
    BY <1>9 DEF CloseLedger, LedgerTypeOK, ledgerFiles, bookFiles
  <2>4. FilesLinked'
    BY <1>9 DEF CloseLedger, FilesLinked, LedgerTypeOK, ledgerFiles
  <2> QED BY <2>2, <2>3, <2>4
<1>10. ASSUME NEW p \in Procs, Bookkeep(p)
       PROVE  LedgerInv'
  <2>1. /\ todo[p] # <<>> /\ Now(p).do \in {"list", "unlist", "prune", "log"} /\ Advance(p)
        /\ copy' \in {copy, [copy EXCEPT ![p] = None]}
    BY <1>10 DEF Bookkeep, Ready
  <2>2. Now(p) \in AnyStep
    BY <2>1, NowIsStep
  <2>3. /\ Now(p).do = "list" => Now(p).args.page \in Pages
        /\ Now(p).do = "log" => Now(p).args \in Pairs
    BY <2>2, LedgerAssumption DEF AnyStep, GoodStep, Applying
  <2>4. copy' \in [Procs -> File \cup {None}] /\ \A q \in Procs : copy'[q] \in {copy[q], None}
    BY <2>1 DEF LedgerTypeOK
  <2>5. Programs
    BY <2>1, OwnProgram DEF LedgerTypeOK
  <2>6. index' \subseteq Pages /\ log' \subseteq Pairs
    BY <1>10, <2>3 DEF Bookkeep, Ready, LedgerTypeOK
  <2>7. LedgerTypeOK'
    BY <1>10, <2>4, <2>6 DEF Bookkeep, LedgerTypeOK
  <2>8. FilesLinked'
    BY <1>10, <2>4 DEF Bookkeep, FilesLinked
  <2> QED BY <2>5, <2>7, <2>8
<1>11. ASSUME NEW p \in Procs, ApproveFinding(p)
       PROVE  LedgerInv'
  <2>1. todo[p] # <<>> /\ Now(p).do \notin {"read", "readIds"} /\ Advance(p) /\ UNCHANGED copy
    BY <1>11 DEF ApproveFinding, Ready
  <2>2. Programs
    BY <2>1, OwnProgram
  <2>3. LedgerTypeOK'
    BY <1>11 DEF ApproveFinding, LedgerTypeOK, FindingStates, bookFiles
  <2>4. FilesLinked'
    BY <1>11 DEF ApproveFinding, FilesLinked
  <2> QED BY <2>2, <2>3, <2>4
<1>12. ASSUME NEW pair \in Twosomes, Raise(pair) \/ Rule(pair)
       PROVE  LedgerInv'
  <2>1. UNCHANGED <<ledger, tmp, handle, garbled, bookFiles, todo, copy, alone, ops>>
    BY <1>12 DEF Raise, Rule
  <2>2. finding' \in [Twosomes -> FindingStates]
    BY <1>12 DEF Raise, Rule, LedgerTypeOK, FindingStates
  <2>3. Programs
    BY <2>1 DEF ProgramsGood, CopyAtHand, Editing, Ready, Now
  <2>4. LedgerTypeOK' /\ FilesLinked'
    BY <2>1, <2>2 DEF LedgerTypeOK, FilesLinked, bookFiles
  <2> QED BY <2>3, <2>4
<1>13. CASE UNCHANGED ledgerVars
  <2>1. Programs
    BY <1>13 DEF ledgerVars, ProgramsGood, CopyAtHand, Editing, Ready, Now
  <2>2. LedgerTypeOK' /\ FilesLinked'
    BY <1>13 DEF ledgerVars, ledgerFiles, bookFiles, LedgerTypeOK, FilesLinked
  <2> QED BY <2>1, <2>2
<1> QED BY <1>1, <1>2, <1>3, <1>4, <1>5, <1>6, <1>7, <1>8, <1>9, <1>10, <1>11, <1>12, <1>13 DEF LedgerNext

-----------------------------------------------------------------------------

\* The invariant, in every behaviour of the ledger.
THEOREM LedgerInvariant == LedgerSpec => []LedgerInv
BY LedgerInvInit, LedgerInvStep, PTL DEF LedgerSpec

\* The types of the ledger's files and copies.
THEOREM LedgerTypes == LedgerSpec => []LedgerTypeOK
<1>1. LedgerInv => LedgerTypeOK
  BY DEF LedgerInv
<1> QED BY <1>1, LedgerInvariant, PTL

\* However many processes supersede, resolve and append at once, write back what
\* they read long before or append an id twice, and wherever they die,
\* superseded_by and supersedes agree in the ledger.
THEOREM LedgerChainIsLinked == LedgerSpec => []ChainIsLinked
<1>1. LedgerInv => ChainIsLinked
  BY DEF LedgerInv, FilesLinked, ChainIsLinked
<1> QED BY <1>1, LedgerInvariant, PTL

-----------------------------------------------------------------------------
(* Operations that do not overlap.  Each access finds what the access      *)
(* before it in the program has left behind, across any number of deaths;  *)
(* so what an access relies on can be read off its program.                *)

\* t may come right behind s.
FollowsOn(s, t) ==
    /\ t.do \in Edits => s.do = "read" /\ t.do # "approved" /\ (t.do = "supersede" <=> Len(t.args) = 3)
    /\ t.do = "replace" => s.do \in Edits /\ s.args = t.args
    /\ t.do = "readIds" => s.do = "list" /\ s.args = t.args
    /\ t.do = "append" => s.do = "readIds" /\ s.args = t.args
    /\ t.do = "log" => s.do = "replace" /\ Len(s.args) = 3 /\ t.args = <<s.args[1], s.args[2]>>
    /\ t.do = "unlist" => s.do = "log" /\ t.args = <<s.args[2]>>
    /\ t.do = "prune" => s.do = "replace" /\ s.args = t.args /\ Len(t.args) = 1
    /\ t.do = "approve" => /\ s.do \in {"replace", "unlist", "prune"} /\ Len(s.args) = 1
                           /\ s.args[1] \in Targets(t)

InOrder(t) == \A i \in 1 .. (Len(t) - 1) : FollowsOn(t[i], t[i + 1])

Opening(t) == t # <<>> /\ t[1].do \in {"list", "read"}

LEMMA JoinedInOrder ==
    ASSUME NEW t \in Seq(AnyStep), NEW u \in Seq(AnyStep), t # <<>>, u # <<>>,
           InOrder(t), InOrder(u), FollowsOn(t[Len(t)], u[1])
    PROVE  /\ t \o u \in Seq(AnyStep) /\ t \o u # <<>> /\ InOrder(t \o u)
           /\ (t \o u)[1] = t[1]
           /\ (t \o u)[Len(t \o u)] = u[Len(u)]
<1>1. /\ Len(t) \in Nat \ {0} /\ Len(u) \in Nat \ {0} /\ Len(t \o u) = Len(t) + Len(u)
      /\ \A i \in 1 .. Len(t) : (t \o u)[i] = t[i]
      /\ \A i \in 1 .. Len(u) : (t \o u)[Len(t) + i] = u[i]
  OBVIOUS
<1>2. ASSUME NEW i \in 1 .. (Len(t \o u) - 1)
      PROVE  FollowsOn((t \o u)[i], (t \o u)[i + 1])
  <2>1. CASE i < Len(t)
    <3>1. (t \o u)[i] = t[i] /\ (t \o u)[i + 1] = t[i + 1] /\ i \in 1 .. (Len(t) - 1)
      BY <1>1, <2>1
    <3> QED BY <3>1 DEF InOrder
  <2>2. CASE i = Len(t)
    <3>1. (t \o u)[i] = t[Len(t)] /\ (t \o u)[i + 1] = u[1]
      BY <1>1, <2>2
    <3> QED BY <3>1
  <2>3. CASE i > Len(t)
    <3> DEFINE j == i - Len(t)
    <3>1. j \in 1 .. (Len(u) - 1) /\ i = Len(t) + j /\ i + 1 = Len(t) + (j + 1)
      BY <1>1, <2>3
    <3>2. (t \o u)[i] = u[j] /\ (t \o u)[i + 1] = u[j + 1]
      BY <1>1, <3>1
    <3> QED BY <3>1, <3>2 DEF InOrder
  <2> QED BY <1>1, <2>1, <2>2, <2>3
<1>3. InOrder(t \o u)
  BY <1>2 DEF InOrder
<1> QED BY <1>1, <1>3

\* One rewrite opens a program and ends with replace.
LEMMA RewriteInOrder ==
    ASSUME NEW edit \in Edits, edit # "approved", NEW args \in Args, edit = "supersede" <=> Len(args) = 3,
           GoodStep(Step(edit, args))
    PROVE  /\ Rewrite(edit, args) \in Seq(AnyStep) /\ Rewrite(edit, args) # <<>>
           /\ InOrder(Rewrite(edit, args)) /\ Opening(Rewrite(edit, args))
           /\ Rewrite(edit, args)[1] = Step("read", args)
           /\ Rewrite(edit, args)[Len(Rewrite(edit, args))] = Step("replace", args)
<1>1. Rewrite(edit, args) \in Seq(AnyStep)
  BY RewriteProgram DEF Program
<1>2. /\ Len(Rewrite(edit, args)) = 3 /\ Rewrite(edit, args)[1] = Step("read", args)
      /\ Rewrite(edit, args)[2] = Step(edit, args) /\ Rewrite(edit, args)[3] = Step("replace", args)
  BY DEF Rewrite
<1>3. FollowsOn(Step("read", args), Step(edit, args))
  BY DEF FollowsOn, Step, Edits, ReviewStates
<1>4. FollowsOn(Step(edit, args), Step("replace", args))
  BY DEF FollowsOn, Step, Edits, ReviewStates
<1> DEFINE rewrite == Rewrite(edit, args)
<1> HIDE DEF rewrite
<1>5. /\ rewrite \in Seq(AnyStep) /\ Len(rewrite) = 3 /\ rewrite[1] = Step("read", args)
      /\ rewrite[2] = Step(edit, args) /\ rewrite[3] = Step("replace", args)
  BY <1>1, <1>2 DEF rewrite
<1>6. InOrder(rewrite)
  BY <1>3, <1>4, <1>5 DEF InOrder
<1>7. rewrite # <<>> /\ Opening(rewrite)
  BY <1>5 DEF Opening, Step
<1> QED BY <1>5, <1>6, <1>7 DEF rewrite

\* Every operation opens a program in order.
LEMMA ApplyInOrder ==
    ASSUME NEW proposal \in Proposals
    PROVE  InOrder(ApplyProgram(proposal)) /\ Opening(ApplyProgram(proposal))
<1>1. /\ Len(ApplyProgram(proposal)) = 3 /\ ApplyProgram(proposal)[1] = Step("list", proposal)
      /\ ApplyProgram(proposal)[2] = Step("readIds", proposal)
      /\ ApplyProgram(proposal)[3] = Step("append", proposal)
  BY DEF ApplyProgram
<1>2. /\ FollowsOn(Step("list", proposal), Step("readIds", proposal))
      /\ FollowsOn(Step("readIds", proposal), Step("append", proposal))
  BY DEF FollowsOn, Step, Edits, ReviewStates
<1> QED BY <1>1, <1>2 DEF InOrder, Opening, Step

LEMMA SupersedeInOrder ==
    ASSUME NEW new \in Claims, NEW old \in Claims, new # old, NEW version \in Versions \cup {None}
    PROVE  LET program == SupersedeProgram(new, old, version)
           IN  /\ program \in Seq(AnyStep) /\ program # <<>>
               /\ InOrder(program) /\ Opening(program)
               /\ program[Len(program)] = Step("unlist", <<old>>)
<1> DEFINE rewrite == Rewrite("supersede", <<new, old, version>>)
           close == <<Step("log", <<new, old>>), Step("unlist", <<old>>)>>
<1>1. <<new, old, version>> \in Args /\ Len(<<new, old, version>>) = 3
  BY DEF Args
<1>2. /\ rewrite \in Seq(AnyStep) /\ rewrite # <<>> /\ InOrder(rewrite) /\ Opening(rewrite)
      /\ rewrite[Len(rewrite)] = Step("replace", <<new, old, version>>)
  <2> DEFINE args == <<new, old, version>>
  <2>1. args[1] = new /\ args[2] = old /\ args \in Args /\ Len(args) = 3
    BY <1>1
  <2> HIDE DEF args
  <2>2. GoodStep(Step("supersede", args))
    BY <2>1 DEF GoodStep, Step, Applying, Edits, ReviewStates
  <2>3. "supersede" \in Edits /\ "supersede" # "approved"
    BY DEF Edits
  <2> QED BY <2>1, <2>2, <2>3, RewriteInOrder DEF args
<1>3. SupersedeProgram(new, old, version) = rewrite \o close
  BY DEF SupersedeProgram
<1>4. /\ Len(close) = 2 /\ close[1] = Step("log", <<new, old>>) /\ close[2] = Step("unlist", <<old>>)
  OBVIOUS
<1>5. FollowsOn(Step("log", <<new, old>>), Step("unlist", <<old>>))
  BY DEF FollowsOn, Step, Edits, ReviewStates
<1>6. FollowsOn(Step("replace", <<new, old, version>>), Step("log", <<new, old>>))
  BY DEF FollowsOn, Step, Edits, ReviewStates
<1>7. close \in Seq(AnyStep) /\ close # <<>> /\ InOrder(close)
  <2>1. SupersedeProgram(new, old, version) \in Seq(AnyStep)
    BY SupersedeIsProgram DEF Program
  <2>2. Len(rewrite) = 3
    BY DEF Rewrite
  <2>3. Len(rewrite \o close) = 5 /\ (rewrite \o close)[4] = close[1] /\ (rewrite \o close)[5] = close[2]
    BY DEF Rewrite
  <2>4. close[1] \in AnyStep /\ close[2] \in AnyStep
    BY <1>3, <2>1, <2>3
  <2>5. close \in Seq(AnyStep)
    BY <1>4, <2>4
  <2> QED BY <1>4, <1>5, <2>5 DEF InOrder
<1> HIDE DEF rewrite, close
<1>8. /\ rewrite \o close \in Seq(AnyStep) /\ rewrite \o close # <<>> /\ InOrder(rewrite \o close)
      /\ (rewrite \o close)[1] = rewrite[1]
      /\ (rewrite \o close)[Len(rewrite \o close)] = close[Len(close)]
  BY <1>2, <1>4, <1>6, <1>7, JoinedInOrder
<1> QED BY <1>2, <1>3, <1>4, <1>8 DEF Opening

LEMMA ResolveInOrder ==
    ASSUME NEW new \in Claims, NEW old \in Claims, new # old, NEW version \in Versions \cup {None},
           NEW program \in ResolvePrograms(new, old, version)
    PROVE  InOrder(program) /\ Opening(program)
<1> DEFINE approve == <<Step("approve", <<new, old>>)>>
           mark(c, state) == Rewrite(state, <<c>>)
           prune(c) == <<Step("prune", <<c>>)>>
<1>1. <<new, old>> \in Args /\ \A c \in {new, old} : <<c>> \in Args /\ Len(<<c>>) = 1
  BY DEF Args
<1>2. approve \in Seq(AnyStep) /\ approve # <<>> /\ InOrder(approve) /\ Len(approve) = 1
  <2>1. approve \in Seq(AnyStep)
    BY <1>1, SingleStep DEF GoodStep, Step, Accesses, Applying, Informed, Edits, ReviewStates, Program
  <2> QED BY <2>1 DEF InOrder
<1>3. ASSUME NEW c \in {new, old}, NEW state \in {"conflict", "rejected"}
      PROVE  /\ mark(c, state) \in Seq(AnyStep) /\ mark(c, state) # <<>>
             /\ InOrder(mark(c, state)) /\ Opening(mark(c, state))
             /\ mark(c, state)[1] = Step("read", <<c>>)
             /\ mark(c, state)[Len(mark(c, state))] = Step("replace", <<c>>)
  BY <1>1, RewriteInOrder DEF GoodStep, Step, Applying, Edits, ReviewStates
<1>4. ASSUME NEW c \in {new, old}
      PROVE  /\ prune(c) \in Seq(AnyStep) /\ prune(c) # <<>> /\ InOrder(prune(c)) /\ Len(prune(c)) = 1
             /\ prune(c)[1] = Step("prune", <<c>>)
  <2> DEFINE args == <<c>>
  <2>0. args[1] = c /\ args \in Args /\ Len(args) = 1
    BY <1>1
  <2> HIDE DEF args
  <2>2. GoodStep(Step("prune", args))
    BY <2>0 DEF GoodStep, Step, Applying, Edits, ReviewStates
  <2>3. "prune" \in Accesses /\ "prune" \notin Informed \cup Applying
    BY DEF Accesses, Applying, Informed, Edits, ReviewStates
  <2>1. prune(c) \in Seq(AnyStep)
    BY <2>0, <2>2, <2>3, SingleStep DEF Program, args
  <2> QED BY <2>1 DEF InOrder
<1>5. Targets(Step("approve", <<new, old>>)) = {new, old}
  <2>1. {<<new, old>>[i] : i \in 1 .. 2} = {new, old}
    OBVIOUS
  <2> QED BY <2>1 DEF Targets, Step
<1>6. ASSUME NEW c \in {new, old}, NEW s \in {Step("replace", <<c>>), Step("unlist", <<c>>), Step("prune", <<c>>)}
      PROVE  FollowsOn(s, Step("approve", <<new, old>>))
  <2>1. s.do \in {"replace", "unlist", "prune"} /\ s.args = <<c>> /\ Len(s.args) = 1 /\ s.args[1] = c
    BY <1>6 DEF Step
  <2>2. Step("approve", <<new, old>>).do = "approve"
    BY DEF Step
  <2> QED BY <1>5, <2>1, <2>2 DEF FollowsOn, Edits, ReviewStates
<1>7. ASSUME NEW c \in {new, old}
      PROVE  /\ FollowsOn(Step("replace", <<c>>), Step("prune", <<c>>))
             /\ \A d \in {new, old} : FollowsOn(Step("replace", <<c>>), Step("read", <<d>>))
  BY <1>1 DEF FollowsOn, Step, Edits, ReviewStates
<1> HIDE DEF approve, mark, prune
<1>8. approve[1] = Step("approve", <<new, old>>)
  BY DEF approve
<1>9. ASSUME NEW t \in Seq(AnyStep), t # <<>>, InOrder(t), Opening(t), NEW c \in {new, old},
             t[Len(t)] \in {Step("replace", <<c>>), Step("unlist", <<c>>), Step("prune", <<c>>)}
      PROVE  InOrder(t \o approve) /\ Opening(t \o approve)
  <2>1. FollowsOn(t[Len(t)], approve[1])
    BY <1>6, <1>8, <1>9
  <2> QED BY <1>2, <1>9, <2>1, JoinedInOrder DEF Opening
<1>10. /\ InOrder(mark(new, "conflict") \o mark(old, "conflict") \o approve)
       /\ Opening(mark(new, "conflict") \o mark(old, "conflict") \o approve)
  <2> DEFINE t == mark(new, "conflict") \o mark(old, "conflict")
  <2>1. t \in Seq(AnyStep) /\ t # <<>> /\ InOrder(t) /\ Opening(t) /\ t[Len(t)] = Step("replace", <<old>>)
    BY <1>3, <1>7, JoinedInOrder DEF Opening
  <2> HIDE DEF t
  <2>2. InOrder(t \o approve) /\ Opening(t \o approve)
    BY <1>9, <2>1
  <2> QED BY <2>2 DEF t
<1>11. ASSUME NEW c \in {new, old}
       PROVE  /\ InOrder(mark(c, "rejected") \o prune(c) \o approve)
              /\ Opening(mark(c, "rejected") \o prune(c) \o approve)
  <2> DEFINE t == mark(c, "rejected") \o prune(c)
  <2>3. /\ mark(c, "rejected") \in Seq(AnyStep) /\ mark(c, "rejected") # <<>>
        /\ InOrder(mark(c, "rejected")) /\ Opening(mark(c, "rejected"))
        /\ mark(c, "rejected")[Len(mark(c, "rejected"))] = Step("replace", <<c>>)
    BY <1>3
  <2>4. /\ prune(c) \in Seq(AnyStep) /\ prune(c) # <<>> /\ InOrder(prune(c)) /\ Len(prune(c)) = 1
        /\ prune(c)[1] = Step("prune", <<c>>)
    BY <1>4
  <2>5. FollowsOn(Step("replace", <<c>>), Step("prune", <<c>>))
    BY <1>7
  <2>1. t \in Seq(AnyStep) /\ t # <<>> /\ InOrder(t) /\ Opening(t) /\ t[Len(t)] = Step("prune", <<c>>)
    BY <2>3, <2>4, <2>5, JoinedInOrder DEF Opening
  <2> HIDE DEF t
  <2>2. InOrder(t \o approve) /\ Opening(t \o approve)
    BY <1>9, <2>1
  <2> QED BY <2>2 DEF t
<1>12. /\ InOrder(SupersedeProgram(new, old, version) \o approve)
       /\ Opening(SupersedeProgram(new, old, version) \o approve)
  BY <1>9, SupersedeInOrder
<1> QED BY <1>10, <1>11, <1>12 DEF ResolvePrograms, approve, mark, prune

Unapproved(f, c) == \E row \in Rows(f, c) : row.state # "approved"

\* c's row in the file has lost the state for which the page it had in p's copy
\* is listed.
Struck(p, c) == \E row \in Rows(ledger, c) :
                    row.state # "approved" /\ row.page = LastRow(copy[p], c).page

\* What a "replace" is about to move in place: an edit of the ledger there is.
ReadyToReplace(p, step) ==
    /\ step.do \in Edits /\ step.do # "approved" /\ (step.do = "supersede" <=> Len(step.args) = 3)
    /\ step.args = Now(p).args /\ Targets(step) \subseteq Known(ledger)
    /\ tmp = Edit(ledger, step)
    /\ Len(step.args) = 3 => copy[p] = ledger

\* What the next access of p finds.
AtHand(p) ==
    LET now == Now(p)
    IN  /\ now.do \in Edits => /\ copy[p] = ledger /\ now.do # "approved"
                               /\ now.do = "supersede" <=> Len(now.args) = 3
        /\ now.do = "replace" => \E step \in AnyStep : ReadyToReplace(p, step)
        /\ now.do \in {"readIds", "append"} => now.args.page \in index \/ torn
        /\ now.do = "log" => /\ \E row \in Rows(ledger, now.args[1]) : now.args[2] \in row.supersedes
                             /\ Struck(p, now.args[2])
        /\ now.do = "unlist" => Struck(p, now.args[1])
        /\ now.do = "prune" => now.args[1] \in Known(ledger) /\ ledger[now.args[1]][1].state # "approved"
        /\ now.do = "approve" => \E c \in Targets(now) : Unapproved(ledger, c)

\* The program of p, and what lies ready for it.
Fine(p) == /\ InOrder(todo[p])
           /\ handle[p] # "none" => Editing(p) /\ handle[p] = "tmp" /\ tmp = NoLines
           /\ todo[p] # <<>> => AtHand(p)

EffectsHold == \A pair \in Twosomes :
                   finding[pair] = "resolved" => \E c \in pair : Unapproved(ledger, c)

BooksHold == ApprovedIsListed /\ LogMatchesLedger /\ EffectsHold

\* The invariant of operations that do not overlap.
AloneInv == alone => /\ \A p \in Procs : Fine(p)
                     /\ \A p, q \in Procs : todo[p] # <<>> /\ todo[q] # <<>> => p = q
                     /\ BooksHold

LEMMA AloneInvInit == LedgerInit => AloneInv
<1> SUFFICES ASSUME LedgerInit PROVE AloneInv
  OBVIOUS
<1>1. /\ \A p \in Procs : todo[p] = <<>> /\ handle[p] = "none"
      /\ log = {} /\ \A pair \in Twosomes : finding[pair] = "none"
  BY DEF LedgerInit
<1>2. \A c \in Claims : Rows(ledger, c) = {}
  <2>1. ASSUME NEW c \in Claims PROVE Rows(NoLines, c) = {}
    <3>1. NoLines[c] = <<>> /\ Len(NoLines[c]) = 0
      BY DEF NoLines
    <3> QED BY <3>1, EmptyIsLinked, RowFacts
  <2> QED BY <2>1 DEF LedgerInit
<1>3. BooksHold
  BY <1>1, <1>2 DEF BooksHold, ApprovedIsListed, LogMatchesLedger, EffectsHold
<1>4. InOrder(<<>>)
  BY DEF InOrder
<1> QED BY <1>1, <1>3, <1>4 DEF AloneInv, Fine

\* The books stay right when the ledger only gets later, what is new in it is
\* listed, a line that goes has its reason and entries are true when made.
LEMMA BooksStayRight ==
    ASSUME LedgerTypeOK, LedgerTypeOK', BooksHold,
           Later(ledger, ledger'),
           torn => torn',
           torn' \/ /\ \A c \in Claims : \A row \in Rows(ledger', c) :
                          \/ row.page \in index'
                          \/ row \in Rows(ledger, c)
                          \/ \E i \in 1 .. Len(ledger[c]) : row = ledger'[c][i]
                    /\ \A page \in index \ index' : \E c \in Claims : \E row \in Rows(ledger', c) :
                          row.page = page /\ row.state # "approved",
           \A entry \in log' \ log : \E row \in Rows(ledger', entry[1]) : entry[2] \in row.supersedes,
           \A pair \in Twosomes : finding'[pair] = "resolved" =>
               finding[pair] = "resolved" \/ \E c \in pair : Unapproved(ledger', c)
    PROVE  BooksHold'
<1>1. ledger \in File /\ ledger' \in File
  BY DEF LedgerTypeOK
<1> DEFINE Off(f, page) == \E c \in Claims : \E row \in Rows(f, c) : row.page = page /\ row.state # "approved"
<1>2. ASSUME NEW page, Off(ledger, page) PROVE Off(ledger', page)
  BY <1>1, <1>2, LaterRow
<1>3. ApprovedIsListed'
  <2> SUFFICES ASSUME NEW c \in Claims, NEW row \in Rows(ledger', c),
                      ~torn', row.state = "approved", ~row.closed
               PROVE  row.page \in index' \/ Off(ledger', row.page)
    BY DEF ApprovedIsListed
  <2>1. ASSUME row.page \in index \/ Off(ledger, row.page)
        PROVE  row.page \in index' \/ Off(ledger', row.page)
    BY <1>2, <2>1
  <2>2. CASE row \in Rows(ledger, c)
    BY <2>1, <2>2 DEF BooksHold, ApprovedIsListed
  <2>3. CASE \E i \in 1 .. Len(ledger[c]) : row = ledger'[c][i]
    <3>1. PICK i \in 1 .. Len(ledger[c]) : row = ledger'[c][i]
      BY <2>3
    <3>2. ledger[c][i] \in Rows(ledger, c)
      BY <1>1, RowFacts
    <3>3. ledger[c][i].page = row.page /\ ledger[c][i].state = "approved" /\ ~ledger[c][i].closed
      BY <3>1 DEF Later
    <3>4. row.page \in index \/ Off(ledger, row.page)
      BY <3>2, <3>3 DEF BooksHold, ApprovedIsListed
    <3> QED BY <2>1, <3>4
  <2>4. CASE row.page \in index'
    BY <2>4
  <2> QED BY <2>2, <2>3, <2>4
<1>4. LogMatchesLedger'
  <2> SUFFICES ASSUME NEW entry \in log'
               PROVE  \E row \in Rows(ledger', entry[1]) : entry[2] \in row.supersedes
    BY DEF LogMatchesLedger
  <2>1. CASE entry \in log
    <3>1. entry[1] \in Claims
      BY <2>1 DEF LedgerTypeOK, Pairs
    <3>2. PICK row \in Rows(ledger, entry[1]) : entry[2] \in row.supersedes
      BY <2>1 DEF BooksHold, LogMatchesLedger
    <3> QED BY <1>1, <3>1, <3>2, LaterRow
  <2>2. CASE entry \notin log
    BY <2>2
  <2> QED BY <2>1, <2>2
<1>5. EffectsHold'
  <2> SUFFICES ASSUME NEW pair \in Twosomes, finding'[pair] = "resolved"
               PROVE  \E c \in pair : Unapproved(ledger', c)
    BY DEF EffectsHold
  <2>1. CASE finding[pair] = "resolved"
    <3>1. PICK c \in pair : Unapproved(ledger, c)
      BY <2>1 DEF BooksHold, EffectsHold
    <3>2. c \in Claims
      BY <3>1 DEF Twosomes, Pairs
    <3>3. Unapproved(ledger', c)
      BY <1>1, <3>1, <3>2, LaterRow DEF Unapproved
    <3> QED BY <3>3
  <2> QED BY <2>1
<1> QED BY <1>3, <1>4, <1>5 DEF BooksHold

\* The same when the rows of the ledger stay.
LEMMA SameLedgerBooks ==
    ASSUME LedgerTypeOK, LedgerTypeOK', BooksHold, UNCHANGED <<ledger, log, finding>>,
           torn => torn', torn' \/ index' = index
    PROVE  BooksHold'
BY DEF BooksHold, ApprovedIsListed, LogMatchesLedger, EffectsHold, Unapproved

\* The next access of p is one that may follow the one it has just made.
LEMMA NextAccess ==
    ASSUME LedgerInv, NEW p \in Procs, InOrder(todo[p]), todo[p] # <<>>, Advance(p)
    PROVE  /\ InOrder(todo'[p])
           /\ todo'[p] # <<>> => FollowsOn(Now(p), Now(p)') /\ Now(p)' \in AnyStep
<1>1. todo'[p] = Tail(todo[p])
  BY DEF LedgerInv, Advance
<1>2. /\ todo[p] \in Seq(AnyStep) /\ Len(todo[p]) \in Nat \ {0} /\ Head(todo[p]) = todo[p][1]
      /\ Tail(todo[p]) \in Seq(AnyStep) /\ Len(Tail(todo[p])) = Len(todo[p]) - 1
      /\ \A i \in 1 .. Len(Tail(todo[p])) : Tail(todo[p])[i] = todo[p][i + 1]
  BY DEF LedgerInv, ProgramsGood
<1>3. InOrder(Tail(todo[p]))
  BY <1>2 DEF InOrder
<1>4. Tail(todo[p]) # <<>> => /\ Head(Tail(todo[p])) = todo[p][2] /\ Len(todo[p]) >= 2
                             /\ Head(Tail(todo[p])) \in AnyStep
  BY <1>2
<1>5. Len(todo[p]) >= 2 => FollowsOn(todo[p][1], todo[p][2])
  <2>1. Len(todo[p]) >= 2 => 1 \in 1 .. (Len(todo[p]) - 1) /\ 1 + 1 = 2
    BY <1>2
  <2> QED BY <2>1 DEF InOrder
<1>6. Now(p) = todo[p][1] /\ Now(p)' = Head(Tail(todo[p]))
  BY <1>1, <1>2 DEF Now
<1> QED BY <1>1, <1>3, <1>4, <1>5, <1>6

\* An access of one of the operations, with nobody else at work.
LEMMA OwnStep ==
    ASSUME LedgerInv, LedgerInv', NEW p \in Procs, Fine(p), BooksHold,
           \/ Kill(p) \/ Read(p) \/ OpenTmp(p) \/ WriteTmp(p) \/ Replace(p)
           \/ ReadIds(p) \/ AppendRow(p) \/ CloseLedger(p) \/ Bookkeep(p) \/ ApproveFinding(p)
    PROVE  /\ Fine(p)' /\ BooksHold'
           /\ \A q \in Procs \ {p} : todo'[q] = todo[q] /\ (handle[q] = "none" => handle'[q] = "none")
<1> USE DEF Fine
<1> DEFINE Frame == \A q \in Procs \ {p} : todo'[q] = todo[q] /\ (handle[q] = "none" => handle'[q] = "none")
<1>0. LedgerTypeOK /\ LedgerTypeOK' /\ todo = [q \in Procs |-> todo[q]]
      /\ ledger \in File /\ ledger' \in File /\ Linked(ledger)
  BY DEF LedgerInv, LedgerTypeOK, FilesLinked
<1>a. todo[p] # <<>> => Now(p) \in AnyStep
  BY NowIsStep
<1>b. Editing(p) = (todo[p] # <<>> /\ Now(p).do \in Edits)
  BY DEF Editing, Edits
<1>c. ASSUME Advance(p) PROVE \A q \in Procs \ {p} : todo'[q] = todo[q]
  BY <1>0, <1>c DEF Advance
<1>d. ASSUME Abort(p)
      PROVE  todo'[p] = <<>> /\ (\A q \in Procs \ {p} : todo'[q] = todo[q]) /\ InOrder(todo'[p])
  BY <1>0, <1>d DEF Abort, InOrder
<1>2. CASE Kill(p)
  <2>1. handle'[p] = "none" /\ \A q \in Procs \ {p} : handle'[q] = handle[q]
    BY <1>0, <1>2 DEF Kill, LedgerTypeOK
  <2>2. UNCHANGED <<ledger, log, finding>> /\ (torn' \/ index' = index) /\ (torn => torn') /\ Abort(p)
    BY <1>2 DEF Kill
  <2>3. BooksHold'
    BY <1>0, <2>2, SameLedgerBooks
  <2> QED BY <1>d, <2>1, <2>2, <2>3
<1>3. CASE Read(p)
  <2>0. todo[p] # <<>> /\ Now(p).do = "read"
        /\ UNCHANGED <<ledger, tmp, handle, index, torn, log, finding>>
    BY <1>3 DEF Read, Ready, ledgerFiles, bookFiles
  <2>1. BooksHold'
    BY <1>0, <2>0, SameLedgerBooks
  <2>2. handle'[p] = "none"
    BY <1>b, <2>0 DEF Edits, ReviewStates
  <2>3. CASE Abort(p)
    BY <1>d, <2>0, <2>1, <2>2, <2>3
  <2>4. CASE copy' = [copy EXCEPT ![p] = ledger] /\ Advance(p)
    <3>1. copy'[p] = ledger'
      BY <1>0, <2>0, <2>4 DEF LedgerTypeOK
    <3>2. /\ InOrder(todo'[p])
          /\ todo'[p] # <<>> => FollowsOn(Now(p), Now(p)')
      BY <2>0, <2>4, NextAccess
    <3>3. todo'[p] # <<>> => AtHand(p)'
      BY <2>0, <3>1, <3>2 DEF AtHand, FollowsOn, Edits, ReviewStates
    <3> QED BY <1>c, <2>0, <2>1, <2>2, <2>4, <3>2, <3>3
  <2> QED BY <1>3, <2>3, <2>4 DEF Read
<1>4. CASE OpenTmp(p)
  <2>1. /\ Editing(p) /\ tmp' = NoLines /\ handle'[p] = "tmp" /\ \A q \in Procs \ {p} : handle'[q] = handle[q]
        /\ UNCHANGED <<ledger, index, torn, log, finding, todo, copy>>
    BY <1>0, <1>4 DEF OpenTmp, bookFiles, LedgerTypeOK
  <2>2. BooksHold'
    BY <1>0, <2>1, SameLedgerBooks
  <2>3. Now(p)' = Now(p) /\ Now(p).do \in Edits /\ todo[p] # <<>>
    BY <1>b, <2>1 DEF Now
  <2>4. AtHand(p)'
    BY <2>1, <2>3 DEF AtHand, Edits, ReviewStates
  <2>5. Editing(p)'
    BY <2>1, <2>3 DEF Editing
  <2> QED BY <2>1, <2>2, <2>4, <2>5
<1>5. CASE WriteTmp(p)
  <2>1. todo[p] # <<>> /\ Now(p).do \in Edits /\ handle[p] = "tmp" /\ tmp = NoLines /\ copy[p] = ledger
        /\ Now(p).do # "approved" /\ (Now(p).do = "supersede" <=> Len(Now(p).args) = 3)
    BY <1>5, <1>b DEF WriteTmp, AtHand
  <2>2. Targets(Now(p)) \subseteq Known(ledger)
    BY <1>b, <2>1 DEF LedgerInv, CopyAtHand
  <2>3. tmp' = Edit(ledger, Now(p)) /\ UNCHANGED <<ledger, index, torn, log, finding, copy>> /\ Advance(p)
    BY <1>5, <2>1 DEF WriteTmp, bookFiles
  <2>4. handle'[p] = "none" /\ \A q \in Procs \ {p} : handle'[q] = handle[q]
    BY <1>0, <1>5 DEF WriteTmp, LedgerTypeOK
  <2>5. BooksHold'
    BY <1>0, <2>3, SameLedgerBooks
  <2>6. PICK step \in AnyStep : step = Now(p)
    BY <1>a, <2>1
  <2>7. /\ InOrder(todo'[p])
        /\ todo'[p] # <<>> => FollowsOn(step, Now(p)')
    BY <2>1, <2>3, <2>6, NextAccess
  <2>8. /\ step.do \in Edits /\ step.do # "approved" /\ (step.do = "supersede" <=> Len(step.args) = 3)
        /\ Targets(step) \subseteq Known(ledger') /\ tmp' = Edit(ledger', step) /\ copy'[p] = ledger'
    BY <2>1, <2>2, <2>3, <2>6
  <2>9. step.do \notin {"read", "replace", "list", "readIds", "log", "unlist", "prune"}
    BY <2>8 DEF Edits, ReviewStates
  <2>10. ASSUME todo'[p] # <<>>
         PROVE  AtHand(p)'
    <3>1. FollowsOn(step, Now(p)')
      BY <2>7, <2>10
    <3>2. Now(p)'.do \notin Edits \cup {"readIds", "append", "log", "unlist", "prune", "approve"}
      BY <2>9, <3>1 DEF FollowsOn
    <3>3. Now(p)'.do = "replace" => step.args = Now(p)'.args
      BY <3>1 DEF FollowsOn
    <3> QED BY <2>8, <3>2, <3>3 DEF AtHand, ReadyToReplace
  <2> QED BY <1>c, <2>3, <2>4, <2>5, <2>7, <2>10
<1>6. CASE Replace(p)
  <2>0. todo[p] # <<>> /\ Now(p).do = "replace" /\ handle[p] = "none" /\ UNCHANGED <<index, torn, log, finding>>
    BY <1>6, <1>b DEF Replace, Ready, bookFiles, Edits, ReviewStates
  <2>1. CASE tmp = None
    <3>1. Abort(p) /\ ledger' = ledger /\ handle' = handle
      BY <1>6, <2>1 DEF Replace
    <3>2. BooksHold'
      BY <1>0, <2>0, <3>1, SameLedgerBooks
    <3> QED BY <1>d, <2>0, <3>1, <3>2
  <2>2. CASE tmp # None
    <3>1. ledger' = tmp /\ handle'[p] = "none" /\ Advance(p)
          /\ (\A q \in Procs : handle[q] = "none" => handle'[q] = "none")
          /\ (Len(Now(p).args) = 3 => copy' = copy)
      BY <1>6, <2>0, <2>2 DEF Replace
    <3>2. PICK step \in AnyStep : ReadyToReplace(p, step)
      BY <2>0 DEF AtHand
    <3>3. step.do \in Edits /\ step.do # "approved" /\ (step.do = "supersede" <=> Len(step.args) = 3)
          /\ step.args = Now(p).args /\ ledger' = Edit(ledger, step)
          /\ (Len(step.args) = 3 => copy'[p] = ledger)
      BY <3>1, <3>2 DEF ReadyToReplace
    <3>4. /\ Later(ledger, ledger')
          /\ \A c \in Claims : Len(ledger'[c]) = Len(ledger[c])
          /\ step.do = "supersede" =>
                /\ \E row \in Rows(ledger', step.args[1]) : step.args[2] \in row.supersedes
                /\ \E row \in Rows(ledger', step.args[2]) :
                      row.state # "approved" /\ row.page = LastRow(ledger, step.args[2]).page
          /\ step.do # "supersede" =>
                /\ step.args[1] \in Known(ledger)
                /\ ledger'[step.args[1]][1].state = step.do
                /\ ledger'[step.args[1]][1] \in Rows(ledger', step.args[1])
      BY <1>0, <3>2, <3>3, EditFacts DEF ReadyToReplace
    <3>5. BooksHold'
      <4>1. \A c \in Claims : \A row \in Rows(ledger', c) : \E i \in 1 .. Len(ledger[c]) : row = ledger'[c][i]
        BY <1>0, <3>4, RowFacts
      <4> QED BY <1>0, <2>0, <3>4, <4>1, BooksStayRight
    <3>6. step.do # "supersede" => step.args[1] \in Known(ledger')
      <4>1. step.do # "supersede" => step.args[1] \in Claims /\ Len(ledger[step.args[1]]) >= 1
        BY <1>0, <3>4, RowFacts DEF Known
      <4> QED BY <1>0, <3>4, <4>1, RowFacts
    <3>7. PICK now : now = Now(p)
      OBVIOUS
    <3>8. /\ InOrder(todo'[p])
          /\ todo'[p] # <<>> => FollowsOn(now, Now(p)')
      BY <2>0, <3>1, <3>7, NextAccess
    <3>9. ASSUME todo'[p] # <<>>
          PROVE  AtHand(p)'
      <4> DEFINE then == Now(p)'
      <4>1. FollowsOn(now, then) /\ now.do = "replace" /\ now.args = step.args
        BY <2>0, <3>3, <3>7, <3>8, <3>9
      <4> HIDE DEF then
      <4>2. then.do \notin Edits \cup {"replace", "readIds", "append", "unlist"}
        BY <4>1 DEF FollowsOn, Edits, ReviewStates
      <4>3. then.do = "log" => /\ step.do = "supersede"
                               /\ then.args[1] = step.args[1] /\ then.args[2] = step.args[2]
        BY <3>3, <4>1 DEF FollowsOn
      <4>4. then.do = "log" =>
               /\ \E row \in Rows(ledger', then.args[1]) : then.args[2] \in row.supersedes
               /\ \E row \in Rows(ledger', then.args[2]) :
                     row.state # "approved" /\ row.page = LastRow(copy'[p], then.args[2]).page
        BY <3>3, <3>4, <4>3
      <4>5. then.do = "prune" => then.args[1] \in Known(ledger') /\ ledger'[then.args[1]][1].state # "approved"
        BY <3>3, <3>4, <3>6, <4>1 DEF FollowsOn
      <4>6. then.do = "approve" => \E c \in Targets(then) : Unapproved(ledger', c)
        BY <3>3, <3>4, <4>1 DEF FollowsOn, Unapproved
      <4> QED BY <4>2, <4>4, <4>5, <4>6 DEF AtHand, Struck, then
    <3> QED BY <1>c, <3>1, <3>5, <3>8, <3>9
  <2> QED BY <2>1, <2>2
<1>7. CASE ReadIds(p)
  <2>0. todo[p] # <<>> /\ Now(p).do = "readIds" /\ Advance(p)
        /\ UNCHANGED <<ledger, tmp, handle, index, torn, log, finding>>
    BY <1>7 DEF ReadIds, Ready, ledgerFiles, bookFiles
  <2>1. BooksHold'
    BY <1>0, <2>0, SameLedgerBooks
  <2>2. handle'[p] = "none"
    BY <1>b, <2>0 DEF Edits, ReviewStates
  <2>3. /\ InOrder(todo'[p])
        /\ todo'[p] # <<>> => FollowsOn(Now(p), Now(p)')
    BY <2>0, NextAccess
  <2>4. Now(p).args.page \in index' \/ torn'
    BY <2>0 DEF AtHand
  <2>5. todo'[p] # <<>> => AtHand(p)'
    BY <2>0, <2>3, <2>4 DEF AtHand, FollowsOn, Edits, ReviewStates
  <2> QED BY <1>c, <2>0, <2>1, <2>2, <2>3, <2>5
<1>8. CASE AppendRow(p)
  <2>0. todo[p] # <<>> /\ Now(p).do = "append" /\ UNCHANGED <<tmp, handle, index, torn, log, finding, todo>>
    BY <1>8 DEF AppendRow, Ready, bookFiles
  <2>1. PICK page \in Pages, c \in Claims :
           /\ page = Now(p).args.page
           /\ ledger' = [ledger EXCEPT ![c] = Append(ledger[c], NewRow(page))]
    BY <1>8, NowAppends DEF AppendRow
  <2>2. page \in index' \/ torn'
    BY <2>0, <2>1 DEF AtHand
  <2>3. Later(ledger, ledger')
        /\ \A d \in Claims : \A row \in Rows(ledger', d) : row \in Rows(ledger, d) \/ row = NewRow(page)
    <3>1. LET m == [ledger EXCEPT ![c] = Append(ledger[c], NewRow(page))]
          IN  /\ Later(ledger, m)
              /\ \A d \in Claims : \A row \in Rows(m, d) : row \in Rows(ledger, d) \/ row = NewRow(page)
      BY <1>0, AppendFacts
    <3> QED BY <2>1, <3>1
  <2>4. NewRow(page).page = page
    BY DEF NewRow
  <2>5. BooksHold'
    BY <1>0, <2>0, <2>2, <2>3, <2>4, BooksStayRight
  <2>6. handle'[p] = "none"
    BY <1>b, <2>0 DEF Edits, ReviewStates
  <2>7. AtHand(p)'
    <3>1. Now(p)' = Now(p)
      BY <2>0 DEF Now
    <3> QED BY <2>0, <2>1, <2>2, <3>1 DEF AtHand, Edits, ReviewStates
  <2> QED BY <2>0, <2>5, <2>6, <2>7
<1>9. CASE CloseLedger(p)
  <2>0. todo[p] # <<>> /\ Now(p).do = "append" /\ Advance(p)
        /\ UNCHANGED <<ledger, tmp, handle, index, torn, log, finding>>
    BY <1>9 DEF CloseLedger, Ready, ledgerFiles, bookFiles
  <2>1. BooksHold'
    BY <1>0, <2>0, SameLedgerBooks
  <2>2. handle'[p] = "none"
    BY <1>b, <2>0 DEF Edits, ReviewStates
  <2>3. /\ InOrder(todo'[p])
        /\ todo'[p] # <<>> => FollowsOn(Now(p), Now(p)')
    BY <2>0, NextAccess
  <2>4. todo'[p] # <<>> => AtHand(p)'
    BY <2>0, <2>3 DEF AtHand, FollowsOn, Edits, ReviewStates
  <2> QED BY <1>c, <2>0, <2>1, <2>2, <2>3, <2>4
<1>10. CASE Bookkeep(p)
  <2>0. todo[p] # <<>> /\ Now(p).do \in {"list", "unlist", "prune", "log"} /\ Advance(p)
        /\ UNCHANGED <<ledger, tmp, handle, torn, finding>>
    BY <1>10 DEF Bookkeep, Ready
  <2>1. handle'[p] = "none"
    BY <1>b, <2>0 DEF Edits, ReviewStates
  <2>2. PICK now : now = Now(p)
    OBVIOUS
  <2>3. now \in AnyStep /\ now.do \in {"list", "unlist", "prune", "log"}
        /\ (now.do \in {"unlist", "prune"} => now.args[1] \in Claims)
    BY <1>a, <2>0, <2>2 DEF AnyStep, GoodStep
  <2>4. \A page \in index \ index' : \E c \in Claims : \E row \in Rows(ledger', c) :
            row.page = page /\ row.state # "approved"
    <3>1. CASE now.do = "unlist"
      <4>1. Struck(p, now.args[1]) /\ index' = index \ {LastRow(copy[p], now.args[1]).page}
        BY <1>10, <2>0, <2>2, <3>1 DEF Bookkeep, AtHand, Ready, PrunedPages
      <4> QED BY <2>0, <2>3, <3>1, <4>1 DEF Struck
    <3>2. CASE now.do = "prune"
      <4>1. /\ now.args[1] \in Known(ledger) /\ ledger[now.args[1]][1].state # "approved"
            /\ index' = index \ {ledger[now.args[1]][1].page}
        BY <1>10, <2>0, <2>2, <3>2 DEF Bookkeep, AtHand, Ready, PrunedPages
      <4>2. ledger[now.args[1]][1] \in Rows(ledger, now.args[1])
        <5>1. 1 \in 1 .. Len(ledger[now.args[1]])
          BY <1>0, <2>3, <3>2, <4>1, RowFacts
        <5> QED BY <1>0, <2>3, <3>2, <5>1, RowFacts
      <4> QED BY <2>0, <2>3, <3>2, <4>1, <4>2
    <3>3. CASE now.do \in {"list", "log"}
      BY <1>10, <2>0, <2>2, <3>3 DEF Bookkeep, Ready
    <3> QED BY <2>3, <3>1, <3>2, <3>3
  <2>5. \A entry \in log' \ log : \E row \in Rows(ledger', entry[1]) : entry[2] \in row.supersedes
    BY <1>10, <2>0 DEF Bookkeep, Ready, AtHand
  <2>6. BooksHold'
    BY <1>0, <2>0, <2>4, <2>5, LaterOrSame, BooksStayRight
  <2>7. /\ InOrder(todo'[p])
        /\ todo'[p] # <<>> => FollowsOn(now, Now(p)')
    BY <2>0, <2>2, NextAccess
  <2>8. /\ now.do = "list" => now.args.page \in index'
        /\ now.do = "log" => Struck(p, now.args[2])'
        /\ now.do \in {"unlist", "prune"} => Unapproved(ledger', now.args[1])
    <3>1. now.do = "list" => now.args.page \in index'
      BY <1>10, <2>2 DEF Bookkeep, Ready
    <3>2. now.do = "log" => Struck(p, now.args[2])'
      BY <1>10, <2>0, <2>2 DEF Bookkeep, Ready, AtHand, Struck
    <3>3. now.do = "unlist" => Unapproved(ledger', now.args[1])
      BY <2>0, <2>2 DEF AtHand, Struck, Unapproved
    <3>4. ASSUME now.do = "prune" PROVE Unapproved(ledger', now.args[1])
      <4>1. now.args[1] \in Known(ledger) /\ ledger[now.args[1]][1].state # "approved"
        BY <2>0, <2>2, <3>4 DEF AtHand
      <4>2. 1 \in 1 .. Len(ledger[now.args[1]])
        BY <1>0, <2>3, <3>4, <4>1, RowFacts
      <4> QED BY <1>0, <2>0, <2>3, <3>4, <4>1, <4>2, RowFacts DEF Unapproved
    <3> QED BY <3>1, <3>2, <3>3, <3>4
  <2>9. ASSUME todo'[p] # <<>>
        PROVE  AtHand(p)'
    <3> DEFINE then == Now(p)'
    <3>1. FollowsOn(now, then)
      BY <2>7, <2>9
    <3> HIDE DEF then
    <3>2. then.do \notin Edits \cup {"replace", "append", "log", "prune"}
      BY <2>3, <3>1 DEF FollowsOn, Edits, ReviewStates
    <3>3. then.do = "readIds" => then.args.page \in index'
      BY <2>8, <3>1 DEF FollowsOn
    <3>4. then.do = "unlist" =>
             \E row \in Rows(ledger', then.args[1]) :
                 row.state # "approved" /\ row.page = LastRow(copy'[p], then.args[1]).page
      <4>1. then.do = "unlist" => now.do = "log" /\ then.args[1] = now.args[2]
        BY <3>1 DEF FollowsOn
      <4> QED BY <2>8, <4>1 DEF Struck
    <3>5. then.do = "approve" => \E c \in Targets(then) : Unapproved(ledger', c)
      BY <2>3, <2>8, <3>1 DEF FollowsOn
    <3> QED BY <3>2, <3>3, <3>4, <3>5 DEF AtHand, Struck, then
  <2> QED BY <1>c, <2>0, <2>1, <2>6, <2>7, <2>9
<1>11. CASE ApproveFinding(p)
  <2>0. todo[p] # <<>> /\ Now(p).do = "approve" /\ Advance(p)
        /\ finding' = [finding EXCEPT ![Targets(Now(p))] = "resolved"]
        /\ UNCHANGED <<ledger, tmp, handle, index, torn, log, copy>>
    BY <1>11 DEF ApproveFinding, Ready, bookFiles
  <2>1. \A pair \in Twosomes : finding'[pair] = "resolved" =>
            finding[pair] = "resolved" \/ \E c \in pair : Unapproved(ledger', c)
    BY <1>0, <2>0 DEF AtHand, LedgerTypeOK
  <2>2. BooksHold'
    <3>1. \A c \in Claims : \A row \in Rows(ledger', c) : row \in Rows(ledger, c)
      BY <2>0
    <3> QED BY <1>0, <2>0, <2>1, <3>1, LaterOrSame, BooksStayRight
  <2>3. handle'[p] = "none"
    BY <1>b, <2>0 DEF Edits, ReviewStates
  <2>4. /\ InOrder(todo'[p])
        /\ todo'[p] # <<>> => FollowsOn(Now(p), Now(p)')
    BY <2>0, NextAccess
  <2>5. todo'[p] # <<>> => AtHand(p)'
    BY <2>0, <2>4 DEF AtHand, FollowsOn, Edits, ReviewStates
  <2> QED BY <1>c, <2>0, <2>2, <2>3, <2>4, <2>5
<1> QED BY <1>2, <1>3, <1>4, <1>5, <1>6, <1>7, <1>8, <1>9, <1>10, <1>11

\* Every step, with the processes that do nothing and the next operation.
LEMMA AloneInvStep == LedgerInv /\ LedgerInv' /\ AloneInv /\ [LedgerNext]_ledgerVars => AloneInv'
<1> SUFFICES ASSUME LedgerInv, LedgerInv', AloneInv, [LedgerNext]_ledgerVars, alone'
             PROVE  /\ \A p \in Procs : Fine(p)'
                    /\ \A p, q \in Procs : todo'[p] # <<>> /\ todo'[q] # <<>> => p = q
                    /\ BooksHold'
  BY DEF AloneInv
<1>0. LedgerTypeOK /\ LedgerTypeOK' /\ todo = [q \in Procs |-> todo[q]]
  BY DEF LedgerInv
<1> DEFINE Own(p) == \/ Kill(p) \/ Read(p) \/ OpenTmp(p) \/ WriteTmp(p) \/ Replace(p)
                     \/ ReadIds(p) \/ AppendRow(p) \/ CloseLedger(p) \/ Bookkeep(p) \/ ApproveFinding(p)
\* A process that is idle before and after is fine.
<1>a. ASSUME NEW q \in Procs, todo'[q] = <<>>, handle'[q] = "none" PROVE Fine(q)'
  BY <1>a DEF Fine, InOrder
<1>1. ASSUME NEW p \in Procs, Own(p)
      PROVE  /\ \A q \in Procs : Fine(q)'
             /\ \A q, r \in Procs : todo'[q] # <<>> /\ todo'[r] # <<>> => q = r
             /\ BooksHold'
  <2>1. alone /\ todo[p] # <<>>
    BY <1>1 DEF Kill, Read, OpenTmp, WriteTmp, Replace, ReadIds, AppendRow, CloseLedger, Bookkeep,
                ApproveFinding, Ready, Editing
  <2>2. /\ \A q \in Procs : Fine(q) /\ (q # p => todo[q] = <<>>)
        /\ BooksHold
    BY <2>1 DEF AloneInv
  <2>3. /\ Fine(p)' /\ BooksHold'
        /\ \A q \in Procs \ {p} : todo'[q] = todo[q] /\ (handle[q] = "none" => handle'[q] = "none")
    BY <1>1, <2>2, OwnStep
  <2>4. ASSUME NEW q \in Procs \ {p} PROVE Fine(q)' /\ todo'[q] = <<>>
    <3>1. todo[q] = <<>> /\ handle[q] = "none"
      BY <2>2 DEF Fine, Editing
    <3> QED BY <1>a, <2>3, <3>1
  <2> QED BY <2>3, <2>4
<1>2. ASSUME NEW p \in Procs, Start(p)
      PROVE  /\ \A q \in Procs : Fine(q)'
             /\ \A q, r \in Procs : todo'[q] # <<>> /\ todo'[r] # <<>> => q = r
             /\ BooksHold'
  <2>1. /\ alone /\ todo[p] = <<>> /\ \A q \in Procs \ {p} : todo[q] = <<>>
        /\ UNCHANGED <<ledger, tmp, handle, index, torn, log, finding, copy>>
    BY <1>2 DEF Start, ledgerFiles, bookFiles
  <2>2. \A q \in Procs : handle'[q] = "none"
    BY <2>1 DEF AloneInv, Fine, Editing
  <2>3. PICK program : InOrder(program) /\ Opening(program) /\ program \in Seq(AnyStep)
                       /\ todo' = [todo EXCEPT ![p] = program]
    <3> DEFINE version == IF Versioned THEN Version(ledger) ELSE None
    <3>1. version \in Versions \cup {None}
      BY <1>0 DEF Versions, LedgerTypeOK
    <3> HIDE DEF version
    <3>2. CASE \E proposal \in Proposals : todo' = [todo EXCEPT ![p] = ApplyProgram(proposal)]
      BY <3>2, ApplyInOrder, ApplyIsProgram DEF Program
    <3>3. CASE \E pair \in Pairs : todo' = [todo EXCEPT ![p] = SupersedeProgram(pair[1], pair[2], version)]
      BY <3>1, <3>3, SupersedeInOrder DEF Pairs
    <3>4. CASE \E pair \in Pairs : \E program \in ResolvePrograms(pair[1], pair[2], version) :
                  todo' = [todo EXCEPT ![p] = program]
      BY <3>1, <3>4, ResolveInOrder, ResolveIsProgram DEF Pairs, Program
    <3> QED BY <1>2, <3>2, <3>3, <3>4 DEF Start, version
  <2>4. todo'[p] = program /\ \A q \in Procs \ {p} : todo'[q] = <<>>
    BY <1>0, <2>1, <2>3
  <2>5. Now(p)'.do \in {"list", "read"}
    <3>1. Head(program) = program[1]
      BY <2>3 DEF Opening
    <3> QED BY <2>3, <2>4, <3>1 DEF Now, Opening
  <2>6. Fine(p)'
    <3>1. AtHand(p)'
      BY <2>5 DEF AtHand, Edits, ReviewStates
    <3> QED BY <2>2, <2>3, <2>4, <3>1 DEF Fine
  <2>7. BooksHold'
    BY <1>0, <2>1, SameLedgerBooks DEF AloneInv
  <2> QED BY <1>a, <2>2, <2>4, <2>6, <2>7
<1>3. ASSUME NEW pair \in Twosomes, Raise(pair) \/ Rule(pair)
      PROVE  /\ \A q \in Procs : Fine(q)'
             /\ \A q, r \in Procs : todo'[q] # <<>> /\ todo'[r] # <<>> => q = r
             /\ BooksHold'
  <2>1. alone /\ UNCHANGED <<ledger, tmp, handle, index, torn, log, todo, copy>>
    BY <1>3 DEF Raise, Rule, bookFiles
  <2>2. \A other \in Twosomes : finding'[other] = "resolved" => finding[other] = "resolved"
    BY <1>0, <1>3 DEF Raise, Rule, LedgerTypeOK
  <2>3. BooksHold'
    <3>1. \A c \in Claims : \A row \in Rows(ledger', c) : row \in Rows(ledger, c)
      BY <2>1
    <3>2. Later(ledger, ledger')
      BY <1>0, <2>1, LaterOrSame DEF LedgerTypeOK
    <3> QED BY <1>0, <2>1, <2>2, <3>1, <3>2, BooksStayRight DEF AloneInv
  <2> QED BY <2>1, <2>3 DEF AloneInv, Fine, AtHand, Struck, ReadyToReplace, Editing, Now
<1>4. CASE UNCHANGED ledgerVars
  <2>1. alone /\ UNCHANGED <<ledger, tmp, handle, index, torn, log, finding, todo, copy>>
    BY <1>4 DEF ledgerVars, ledgerFiles, bookFiles
  <2>2. BooksHold'
    BY <1>0, <2>1, SameLedgerBooks DEF AloneInv
  <2> QED BY <2>1, <2>2 DEF AloneInv, Fine, AtHand, Struck, ReadyToReplace, Editing, Now
<1> QED BY <1>1, <1>2, <1>3, <1>4 DEF LedgerNext

\* No step takes a row away: what moves in place holds all.
LEMMA AloneStepKeeps ==
    ASSUME LedgerInv, AloneInv, [LedgerNext]_ledgerVars, alone', NEW c \in Claims
    PROVE  Len(ledger[c]) <= Len(ledger'[c])
<1>0. ledger \in File /\ Linked(ledger) /\ alone /\ Len(ledger[c]) \in Nat
  <2>1. ledger \in File /\ Linked(ledger)
    BY DEF LedgerInv, LedgerTypeOK, FilesLinked
  <2>2. alone
    BY DEF LedgerNext, Start, Kill, Read, OpenTmp, WriteTmp, Replace, ReadIds, AppendRow, CloseLedger,
           Bookkeep, ApproveFinding, Raise, Rule, ledgerVars
  <2> QED BY <2>1, <2>2, RowFacts
<1>1. ASSUME NEW p \in Procs, WriteTmp(p) PROVE ledger' = ledger
  <2>1. handle[p] = "tmp"
    BY <1>0, <1>1 DEF WriteTmp, AloneInv, Fine
  <2> QED BY <1>1, <2>1 DEF WriteTmp
<1>2. ASSUME NEW p \in Procs, Replace(p) PROVE Len(ledger'[c]) = Len(ledger[c])
  <2>1. todo[p] # <<>> /\ Now(p).do = "replace"
    BY <1>2 DEF Replace, Ready
  <2>2. PICK step \in AnyStep : ReadyToReplace(p, step)
    BY <1>0, <2>1 DEF AloneInv, Fine, AtHand
  <2>3. Len(tmp[c]) = Len(ledger[c])
    BY <1>0, <2>2, EditFacts DEF ReadyToReplace
  <2> QED BY <1>2, <2>3 DEF Replace
<1>3. ASSUME NEW p \in Procs, AppendRow(p) PROVE Len(ledger[c]) <= Len(ledger'[c])
  <2>1. PICK page \in Pages, d \in Claims :
           ledger' = [ledger EXCEPT ![d] = Append(ledger[d], NewRow(page))]
    BY <1>3, NowAppends DEF AppendRow
  <2>2. LET m == [ledger EXCEPT ![d] = Append(ledger[d], NewRow(page))] IN Later(ledger, m)
    BY <1>0, AppendFacts
  <2> QED BY <2>1, <2>2 DEF Later
<1>4. ASSUME NEW p \in Procs,
             Start(p) \/ Kill(p) \/ Read(p) \/ OpenTmp(p) \/ ReadIds(p) \/ CloseLedger(p)
                      \/ Bookkeep(p) \/ ApproveFinding(p)
      PROVE  ledger' = ledger
  BY <1>4 DEF Start, Kill, Read, OpenTmp, ReadIds, CloseLedger, Bookkeep, ApproveFinding, ledgerFiles
<1>5. ASSUME (\E pair \in Twosomes : Raise(pair) \/ Rule(pair)) \/ UNCHANGED ledgerVars PROVE ledger' = ledger
  BY <1>5 DEF Raise, Rule, ledgerVars, ledgerFiles
<1>6. CASE ledger' = ledger
  BY <1>0, <1>6
<1>7. CASE \E p \in Procs : Replace(p)
  BY <1>0, <1>2, <1>7
<1> QED BY <1>1, <1>3, <1>4, <1>5, <1>6, <1>7 DEF LedgerNext

-----------------------------------------------------------------------------

\* The invariant of a ledger whose operations do not overlap, deaths between any
\* two accesses included; nothing is said once two have overlapped.
THEOREM AloneInvariant == LedgerSpec => [](LedgerInv /\ AloneInv)
<1>1. LedgerInit => LedgerInv /\ AloneInv
  BY LedgerInvInit, AloneInvInit
<1>2. LedgerInv /\ AloneInv /\ [LedgerNext]_ledgerVars => LedgerInv' /\ AloneInv'
  BY LedgerInvStep, AloneInvStep
<1> QED BY <1>1, <1>2, PTL DEF LedgerSpec

\* Index and log do not contradict the ledger, wherever a process dies and however
\* many claims a page has: what is approved and open is listed unless a claim of
\* its page was superseded or resolved, and what is logged as superseded is so.
THEOREM LedgerBooksMatch == LedgerSpec => []BooksMatchLedger
<1>1. AloneInv => BooksMatchLedger
  BY DEF AloneInv, BooksHold, BooksMatchLedger
<1> QED BY <1>1, AloneInvariant, PTL

\* A finding that was approved as a resolution has had its effect on the ledger,
\* whoever else approves or rejects findings.
THEOREM LedgerResolvedHasEffect == LedgerSpec => []ResolvedHasEffect
<1>1. AloneInv => ResolvedHasEffect
  BY DEF AloneInv, BooksHold, EffectsHold, ResolvedHasEffect, Unapproved
<1> QED BY <1>1, AloneInvariant, PTL

\* No rewrite, finished or cut short, takes a row out of the ledger.
THEOREM LedgerClaimsStay == LedgerSpec => ClaimsAreNeverDeleted
<1>1. LedgerInv /\ AloneInv /\ [LedgerNext]_ledgerVars =>
         [alone' => \A c \in Claims : Len(ledger[c]) <= Len(ledger'[c])]_ledgerVars
  BY AloneStepKeeps
<1> QED BY <1>1, AloneInvariant, PTL DEF LedgerSpec, ClaimsAreNeverDeleted
=============================================================================
