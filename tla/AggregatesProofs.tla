--------------------------- MODULE AggregatesProofs ---------------------------
(***************************************************************************)
(* One row an hour as long as no upserts overlap, and rows apart whatever  *)
(* is lost, fails or is deleted, for any hours, totals and reports.        *)
(***************************************************************************)
EXTENDS Aggregates, FiniteSetTheorems, WellFoundedInduction, TLAPS

\* Upserts and rows have the fields they are made with.
Shaped ==
    /\ \A u \in upserts :
        u = [id |-> u.id, hour |-> u.hour, total |-> u.total,
             step |-> u.step, row |-> u.row, found |-> u.found]
    /\ \A e \in events : e = [id |-> e.id, hour |-> e.hour, total |-> e.total]

Queried(u) == u.step # "query"

\* As long as no upsert overlapped another of its hour, one of an hour's at most
\* is past its query, and the hour of one that is about to insert has no row.
Apart ==
    ~overlapped =>
        /\ \A u, v \in upserts : u.hour = v.hour /\ Queried(u) /\ Queried(v) => u = v
        /\ \A u \in upserts, e \in events : u.step = "insert" => e.hour # u.hour

IInv == Shaped /\ Apart /\ OneRowAnHour

\* An upsert that has looked has its hour to itself, or the overlap is recorded.
LEMMA QueryStep ==
    ASSUME IInv, NEW u \in upserts, Query(u)
    PROVE  IInv'
<1> USE DEF IInv, Shaped
<1>1. PICK v : /\ Continues(u, v) /\ v.hour = u.hour
               /\ v = [id |-> v.id, hour |-> v.hour, total |-> v.total,
                       step |-> v.step, row |-> v.row, found |-> v.found]
               /\ v.step = "insert" => \A e \in events : e.hour # u.hour
  <2> DEFINE rows == {e \in events : e.hour = u.hour}
  <2>1. CASE rows = {} /\ Continues(u, [u EXCEPT !.step = "insert"])
    <3> DEFINE v == [u EXCEPT !.step = "insert"]
    <3>1. v = [id |-> u.id, hour |-> u.hour, total |-> u.total,
               step |-> "insert", row |-> u.row, found |-> u.found]
      OBVIOUS
    <3>2. \A e \in events : e.hour # u.hour
      BY <2>1
    <3> QED
      BY <2>1, <3>1, <3>2
  <2>2. CASE \E e \in rows :
               Continues(u, [u EXCEPT !.step = "update", !.row = e.id, !.found = e.total])
    <3>1. PICK e \in rows :
              Continues(u, [u EXCEPT !.step = "update", !.row = e.id, !.found = e.total])
      BY <2>2
    <3>2. PICK v : v = [u EXCEPT !.step = "update", !.row = e.id, !.found = e.total]
      OBVIOUS
    <3>u. u = [id |-> u.id, hour |-> u.hour, total |-> u.total,
               step |-> u.step, row |-> u.row, found |-> u.found]
      OBVIOUS
    <3>3. v = [x \in DOMAIN v |-> v[x]]
      BY ONLY <3>2
    <3>4. DOMAIN v = {"id", "hour", "total", "step", "row", "found"}
      BY ONLY <3>u, <3>2
    <3>5. v.hour = u.hour /\ v.step = "update"
      BY ONLY <3>u, <3>2
    <3>6. v = [id |-> v.id, hour |-> v.hour, total |-> v.total,
               step |-> v.step, row |-> v.row, found |-> v.found]
      BY ONLY <3>3, <3>4
    <3> QED
      BY <3>1, <3>2, <3>5, <3>6
  <2> QED
    BY <2>1, <2>2 DEF Query
<1>2. /\ upserts' = (upserts \ {u}) \cup {v} /\ events' = events
      /\ ~overlapped' => ~overlapped /\ \A w \in upserts : w.hour = u.hour => ~Queried(w)
  BY <1>1 DEF Query, Continues, Looks, Queried
<1>3. Shaped'
  BY <1>1, <1>2
<1>4. Apart'
  BY <1>1, <1>2 DEF Apart, Queried
<1>5. OneRowAnHour'
  BY <1>2 DEF OneRowAnHour
<1> QED
  BY <1>3, <1>4, <1>5

\* Each step, the writes among them, keeps the invariant.
LEMMA Step ==
    ASSUME IInv, [Next]_vars
    PROVE  IInv'
<1> USE DEF IInv, Shaped, Apart, OneRowAnHour, Queried
<1>1. CASE Use \/ UseOther \/ flush_to_scala \/ ReportLost
  BY <1>1 DEF Use, UseOther, flush_to_scala, Post, ReportLost, worker
<1>2. CASE Ingest
  <2>1. PICK i, h, n :
            upserts' = upserts \cup {[id |-> i, hour |-> h, total |-> n,
                                      step |-> "query", row |-> 0, found |-> 0]}
    BY <1>2 DEF Ingest
  <2>2. events' = events /\ overlapped' = overlapped
    BY <1>2 DEF Ingest
  <2> QED
    BY <2>1, <2>2
<1>3. ASSUME NEW u \in upserts, Query(u)
      PROVE  IInv'
  BY <1>3, QueryStep
<1>4. ASSUME NEW u \in upserts, Insert(u)
      PROVE  IInv'
  <2>1. PICK i : events' = events \cup {[id |-> i, hour |-> u.hour, total |-> u.total]}
    BY <1>4 DEF Insert
  <2>2. u.step = "insert" /\ upserts' = upserts \ {u} /\ overlapped' = overlapped
    BY <1>4 DEF Insert
  <2> QED
    BY <2>1, <2>2
<1>5. ASSUME NEW u \in upserts, Update(u)
      PROVE  IInv'
  <2>1. upserts' = upserts \ {u} /\ overlapped' = overlapped
    BY <1>5 DEF Update
  <2>2. PICK n : events' = {IF e.id = u.row THEN [e EXCEPT !.total = n] ELSE e : e \in events}
    BY <1>5 DEF Update
  <2>3. ASSUME NEW e \in events
        PROVE  [e EXCEPT !.total = n] = [id |-> e.id, hour |-> e.hour, total |-> n]
    OBVIOUS
  <2>4. \A g \in events' : /\ g = [id |-> g.id, hour |-> g.hour, total |-> g.total]
                           /\ \E e \in events : e.hour = g.hour
    BY <2>2, <2>3
  <2>5. ASSUME ~overlapped, NEW g1 \in events', NEW g2 \in events', g1.hour = g2.hour
        PROVE  g1 = g2
    BY <2>2, <2>3, <2>5
  <2> QED
    BY <2>1, <2>4, <2>5
<1>6. CASE UpsertsFail
  <2>1. upserts' \subseteq upserts /\ events' = events /\ overlapped' = overlapped
    BY <1>6 DEF UpsertsFail
  <2> QED
    BY <2>1
<1>7. CASE deleteByIp
  <2>1. events' = {} /\ upserts' = upserts /\ overlapped' = overlapped
    BY <1>7 DEF deleteByIp
  <2> QED
    BY <2>1
<1>8. CASE UNCHANGED vars
  BY <1>8 DEF vars
<1> QED
  BY <1>1, <1>2, <1>3, <1>4, <1>5, <1>6, <1>7, <1>8 DEF Next, Write

\* An hour has one row, however many reports there are, as long as no upsert
\* looked for its row while another of the hour was about to write.
THEOREM RowsAreUnique == Spec => []OneRowAnHour
<1>1. Init => IInv
  BY DEF Init, IInv, Shaped, Apart, OneRowAnHour
<1>2. IInv /\ [Next]_vars => IInv'
  BY Step
<1>3. IInv => OneRowAnHour
  BY DEF IInv
<1> QED
  BY <1>1, <1>2, <1>3, PTL DEF Spec

-----------------------------------------------------------------------------
(* Numbers.                                                                *)

Rows(h)      == {e \in events : e.hour = h}
Inserting(h) == {u \in upserts : u.step = "insert" /\ u.hour = h}

\* The rows of an hour and the upserts about to add one are together no more
\* than the upserts there may be at once: after the first row none adds another
\* that had not looked before.
Counted ==
    /\ IsFiniteSet(reports) /\ IsFiniteSet(upserts) /\ IsFiniteSet(events)
    /\ Cardinality(reports) + Cardinality(upserts) <= MaxReports
    /\ \A h \in Hour : Cardinality(Rows(h)) + Cardinality(Inserting(h)) <= MaxReports

TypeInv == TypeOK /\ Counted

\* A function has no more values than arguments.
LEMMA Images ==
    ASSUME NEW S, IsFiniteSet(S), NEW f, DOMAIN f = S
    PROVE  /\ IsFiniteSet({f[x] : x \in S})
           /\ Cardinality({f[x] : x \in S}) <= Cardinality(S)
           /\ Cardinality({f[x] : x \in S}) \in Nat
<1> DEFINE T == {f[x] : x \in S}
           g == [x \in S |-> f[x]]
<1>1. g \in [S -> T] /\ \A t \in T : \E x \in S : g[x] = t
  OBVIOUS
<1>2. g \in Surjection(S, T)
  BY <1>1 DEF Surjection
<1> QED
  BY <1>2, FS_Surjection, FS_CardinalityType

\* The order of the numbers, as a set of pairs.
Less == {ss \in Nat \X Nat : ss[1] < ss[2]}

\* There is an id left, and the lowest is one.
LEMMA LowestId ==
    ASSUME NEW U, IsFiniteSet(U),
           Cardinality(U) < 2 * MaxReports * (Cardinality(Hour) + 1)
    PROVE  Min(Ids \ U) \in Ids \ U
<1>1. Cardinality(Hour) \in Nat /\ Cardinality(U) \in Nat
  BY AggregateAssumption, FS_CardinalityType
<1>2. PICK n : n = 2 * MaxReports * (Cardinality(Hour) + 1)
  OBVIOUS
<1>3. n \in Nat /\ Ids = 1..n
  BY <1>1, <1>2, AggregateAssumption DEF Ids
<1>4. IsFiniteSet(1..n) /\ Cardinality(1..n) = n
  BY <1>1, <1>2, <1>3, FS_Interval
<1>5. Ids \ U # {}
  <2> SUFFICES ASSUME Ids \subseteq U
               PROVE  FALSE
    OBVIOUS
  <2>1. Cardinality(Ids) <= Cardinality(U)
    BY FS_Subset
  <2> QED
    BY <1>1, <1>2, <1>3, <1>4, <2>1
<1>6. Ids \ U \subseteq Nat
  BY <1>3
<1>7. IsWellFoundedOn(Less, Nat)
  BY NatLessThanWellFounded DEF OpToRel, Less
<1>8. PICK x \in Ids \ U : \A y \in Ids \ U : <<y, x>> \notin Less
  BY <1>5, <1>6, <1>7, WFMin
<1>9. ASSUME NEW y \in Ids \ U
      PROVE  x <= y
  <2>1. x \in Nat /\ y \in Nat
    BY <1>6
  <2>2. <<y, x>> \in Less <=> y < x
    BY <2>1 DEF Less
  <2> QED
    BY <1>8, <2>1, <2>2
<1> QED
  BY <1>9 DEF Min

\* All rows are no more than the hours times the upserts there may be at once.
LEMMA FewRows ==
    ASSUME TypeInv
    PROVE  Cardinality(events) <= Cardinality(Hour) * MaxReports
<1> DEFINE Place == Hour \X (1..MaxReports)
<1>1. /\ IsFiniteSet(Hour) /\ Cardinality(Hour) \in Nat /\ MaxReports \in Nat
      /\ IsFiniteSet(1..MaxReports) /\ Cardinality(1..MaxReports) = MaxReports
  <2>1. /\ IsFiniteSet(1..MaxReports)
        /\ Cardinality(1..MaxReports) = IF 1 > MaxReports THEN 0 ELSE MaxReports - 1 + 1
    BY AggregateAssumption, FS_Interval
  <2> QED
    BY <2>1, AggregateAssumption, FS_CardinalityType
<1>2. IsFiniteSet(Place) /\ Cardinality(Place) = Cardinality(Hour) * MaxReports
  BY <1>1, FS_Product
<1>3. CASE events = {}
  <2>1. Cardinality(events) = 0
    BY <1>3, FS_EmptySet
  <2> QED
    BY <1>1, <2>1
<1>4. CASE events # {}
  <2>1. PICK first : first \in events
    BY <1>4
  <2>2. ASSUME NEW h \in Hour
        PROVE  /\ Cardinality(Rows(h)) \in 0..MaxReports
               /\ Surjection(1..Cardinality(Rows(h)), Rows(h)) # {}
    <3>1. IsFiniteSet(Rows(h)) /\ IsFiniteSet(Inserting(h))
      BY FS_Subset DEF TypeInv, Counted, Rows, Inserting
    <3>2. Cardinality(Rows(h)) \in Nat /\ Cardinality(Inserting(h)) \in Nat
      BY <3>1, FS_CardinalityType
    <3>3. ExistsBijection(1..Cardinality(Rows(h)), Rows(h))
      BY <3>1, FS_CardinalityType
    <3>4. Cardinality(Rows(h)) + Cardinality(Inserting(h)) <= MaxReports
      BY DEF TypeInv, Counted
    <3> QED
      BY <1>1, <3>2, <3>3, <3>4 DEF ExistsBijection, Bijection
  <2> DEFINE nth == [h \in Hour |-> CHOOSE f : f \in Surjection(1..Cardinality(Rows(h)), Rows(h))]
  <2>3. ASSUME NEW h \in Hour
        PROVE  nth[h] \in Surjection(1..Cardinality(Rows(h)), Rows(h))
    BY <2>2
  <2> HIDE DEF nth
  <2> DEFINE row == [p \in Place |-> IF p[2] <= Cardinality(Rows(p[1])) THEN nth[p[1]][p[2]]
                                     ELSE first]
  <2>4. ASSUME NEW p \in Place
        PROVE  row[p] \in events
    <3>1. p[1] \in Hour /\ p[2] \in 1..MaxReports
      OBVIOUS
    <3>2. CASE p[2] <= Cardinality(Rows(p[1]))
      <4>1. p[2] \in 1..Cardinality(Rows(p[1]))
        BY <1>1, <2>2, <3>1, <3>2
      <4>2. nth[p[1]] \in [1..Cardinality(Rows(p[1])) -> Rows(p[1])]
        BY <2>3, <3>1 DEF Surjection
      <4>3. nth[p[1]][p[2]] \in Rows(p[1])
        BY <4>1, <4>2
      <4> QED
        BY <3>2, <4>3 DEF Rows
    <3>3. CASE ~(p[2] <= Cardinality(Rows(p[1])))
      BY <2>1, <3>3
    <3> QED
      BY <3>2, <3>3
  <2>5. ASSUME NEW e \in events
        PROVE  \E p \in Place : row[p] = e
    <3>1. e.hour \in Hour /\ e \in Rows(e.hour)
      BY DEF TypeInv, TypeOK, Report, Rows
    <3>2. PICK k \in 1..Cardinality(Rows(e.hour)) : nth[e.hour][k] = e
      BY <2>3, <3>1 DEF Surjection
    <3>3. <<e.hour, k>> \in Place /\ k <= Cardinality(Rows(e.hour))
      BY <1>1, <2>2, <3>1, <3>2
    <3>4. row[<<e.hour, k>>] = e
      BY <3>2, <3>3
    <3> QED
      BY <3>3, <3>4
  <2>6. row \in Surjection(Place, events)
    BY <2>4, <2>5 DEF Surjection
  <2>7. Cardinality(events) <= Cardinality(Place)
    BY <1>2, <2>6, FS_Surjection
  <2> QED
    BY <1>2, <2>7
<1> QED
  BY <1>3, <1>4

\* Reports and upserts find an id for themselves.
LEMMA FreshIsId ==
    ASSUME NEW S, IsFiniteSet(S), Cardinality(S) <= MaxReports, MaxReports # 0
    PROVE  Fresh(S) \in Ids
<1> DEFINE id == [r \in S |-> r.id]
<1>1. /\ IsFiniteSet({id[r] : r \in S}) /\ Cardinality({id[r] : r \in S}) <= Cardinality(S)
      /\ Cardinality({id[r] : r \in S}) \in Nat
  BY Images
<1>2. {id[r] : r \in S} = {r.id : r \in S}
  OBVIOUS
<1>3. MaxReports < 2 * MaxReports * (Cardinality(Hour) + 1)
  BY AggregateAssumption, FS_CardinalityType
<1>4. Cardinality(S) \in Nat /\ MaxReports \in Nat /\ Cardinality(Hour) \in Nat
  BY AggregateAssumption, FS_CardinalityType
<1> HIDE DEF id
<1> DEFINE I == {r.id : r \in S}
<1>5. IsFiniteSet(I) /\ Cardinality(I) \in Nat /\ Cardinality(I) <= Cardinality(S)
  BY <1>1, <1>2
<1> HIDE DEF I
<1>6. Cardinality(I) < 2 * MaxReports * (Cardinality(Hour) + 1)
  BY <1>3, <1>4, <1>5
<1> USE DEF I
<1> QED
  BY <1>5, <1>6, LowestId DEF Fresh

\* A new row finds an id that no row has and none is updated under.
LEMMA RowId ==
    ASSUME TypeInv, upserts # {}
    PROVE  Min(Ids \ ({e.id : e \in events} \cup {v.row : v \in upserts}))
               \in Ids \ ({e.id : e \in events} \cup {v.row : v \in upserts})
<1> DEFINE id  == [e \in events |-> e.id]
           row == [v \in upserts |-> v.row]
           M   == MaxReports
           H   == Cardinality(Hour)
<1>1. /\ IsFiniteSet({id[r] : r \in events}) /\ Cardinality({id[r] : r \in events}) \in Nat
      /\ Cardinality({id[r] : r \in events}) <= Cardinality(events)
  BY Images DEF TypeInv, Counted
<1>2. /\ IsFiniteSet({row[r] : r \in upserts}) /\ Cardinality({row[r] : r \in upserts}) \in Nat
      /\ Cardinality({row[r] : r \in upserts}) <= Cardinality(upserts)
  BY Images DEF TypeInv, Counted
<1>3. {id[r] : r \in events} = {e.id : e \in events} /\ {row[r] : r \in upserts} = {v.row : v \in upserts}
  OBVIOUS
<1> HIDE DEF id, row
<1> DEFINE A == {e.id : e \in events}
           B == {v.row : v \in upserts}
<1>4. /\ IsFiniteSet(A) /\ Cardinality(A) \in Nat /\ Cardinality(A) <= Cardinality(events)
      /\ IsFiniteSet(B) /\ Cardinality(B) \in Nat /\ Cardinality(B) <= Cardinality(upserts)
  BY <1>1, <1>2, <1>3
<1> HIDE DEF A, B
<1>5. IsFiniteSet(A \cup B) /\ Cardinality(A \cup B) = Cardinality(A) + Cardinality(B) - Cardinality(A \cap B)
  BY <1>4, FS_Union
<1>6. Cardinality(A \cap B) \in Nat
  BY <1>4, FS_Intersection, FS_CardinalityType
<1>7. /\ Cardinality(events) \in Nat /\ Cardinality(upserts) \in Nat /\ Cardinality(reports) \in Nat
      /\ Cardinality(upserts) # 0
      /\ Cardinality(reports) + Cardinality(upserts) <= M
  BY FS_CardinalityType, FS_EmptySet DEF TypeInv, Counted
<1>8. Cardinality(events) <= H * M
  BY FewRows
<1>9. M \in Nat /\ H \in Nat /\ M # 0 /\ Cardinality(upserts) <= M
  BY <1>7, AggregateAssumption, FS_CardinalityType
<1>10. H * M \in Nat /\ H * M + M < 2 * M * (H + 1)
  BY <1>9
<1> HIDE DEF M, H
<1>11. Cardinality(A \cup B) < 2 * M * (H + 1)
  BY <1>4, <1>5, <1>6, <1>7, <1>8, <1>9, <1>10
<1> USE DEF M, H, A, B
<1> QED
  BY <1>5, <1>11, LowestId

\* Parts of two sets are together no more than the two.
LEMMA Fewer ==
    ASSUME NEW S, NEW T, IsFiniteSet(S), IsFiniteSet(T), NEW n \in Nat,
           Cardinality(S) + Cardinality(T) <= n,
           NEW P \in SUBSET S, NEW Q \in SUBSET T
    PROVE  Cardinality(P) + Cardinality(Q) <= n
<1>1. /\ Cardinality(P) <= Cardinality(S) /\ Cardinality(Q) <= Cardinality(T)
      /\ IsFiniteSet(P) /\ IsFiniteSet(Q)
  BY FS_Subset
<1>2. /\ Cardinality(P) \in Nat /\ Cardinality(Q) \in Nat
      /\ Cardinality(S) \in Nat /\ Cardinality(T) \in Nat
  BY <1>1, FS_CardinalityType
<1> QED
  BY <1>1, <1>2

\* One taken, one put.
LEMMA Replaced ==
    ASSUME NEW S, IsFiniteSet(S), NEW u \in S, NEW v
    PROVE  /\ IsFiniteSet((S \ {u}) \cup {v})
           /\ Cardinality((S \ {u}) \cup {v}) <= Cardinality(S)
           /\ IsFiniteSet(S \ {u}) /\ Cardinality(S \ {u}) = Cardinality(S) - 1
           /\ Cardinality(S) \in Nat /\ Cardinality(S \ {u}) \in Nat
           /\ Cardinality((S \ {u}) \cup {v}) \in Nat
<1>1. IsFiniteSet(S \ {u}) /\ Cardinality(S \ {u}) = Cardinality(S) - 1
  BY FS_RemoveElement
<1>2. /\ IsFiniteSet((S \ {u}) \cup {v})
      /\ Cardinality((S \ {u}) \cup {v}) \in {Cardinality(S \ {u}), Cardinality(S \ {u}) + 1}
  BY <1>1, FS_AddElement
<1>3. /\ Cardinality(S) \in Nat /\ Cardinality(S \ {u}) \in Nat
      /\ Cardinality((S \ {u}) \cup {v}) \in Nat
  BY <1>1, <1>2, FS_CardinalityType
<1> QED
  BY <1>1, <1>2, <1>3

-----------------------------------------------------------------------------
(* Types.                                                                  *)

\* A step that adds no row and lets none more insert keeps the numbers.
LEMMA NoMore ==
    ASSUME TypeInv, events' = events,
           \A v \in upserts' : v.step = "insert" => v \in upserts,
           NEW h \in Hour
    PROVE  Cardinality(Rows(h))' + Cardinality(Inserting(h))' <= MaxReports
<1>1. Rows(h)' = Rows(h) /\ Inserting(h)' \in SUBSET Inserting(h)
  BY DEF Rows, Inserting
<1>2. IsFiniteSet(Rows(h)) /\ IsFiniteSet(Inserting(h))
  BY FS_Subset DEF TypeInv, Counted, Rows, Inserting
<1>3. Cardinality(Rows(h)) + Cardinality(Inserting(h)) <= MaxReports /\ MaxReports \in Nat
  BY AggregateAssumption DEF TypeInv, Counted
<1> QED
  BY <1>1, <1>2, <1>3, Fewer

\* A report is sent under an id of its own.
LEMMA PostTypes ==
    ASSUME TypeInv, flush_to_scala
    PROVE  TypeInv'
<1>1. /\ IsFiniteSet(reports) /\ Cardinality(reports) \in Nat /\ Cardinality(upserts) \in Nat
      /\ Cardinality(reports) + Cardinality(upserts) < MaxReports /\ MaxReports \in Nat
  BY AggregateAssumption, FS_CardinalityType DEF TypeInv, Counted, flush_to_scala, Post
<1> DEFINE r == [id |-> Fresh(reports), hour |-> hour, total |-> total]
<1>2. r \in Report
  <2>1. Fresh(reports) \in Ids
    BY <1>1, FreshIsId
  <2>2. hour \in Hour /\ total \in Total
    BY AggregateAssumption DEF TypeInv, TypeOK, Total
  <2> QED
    BY <2>1, <2>2 DEF Report
<1>3. /\ reports' = reports \cup {r} /\ UNCHANGED <<used, total, hour, upserts, events>>
  BY DEF flush_to_scala, Post, worker
<1> HIDE DEF r
<1>4. /\ IsFiniteSet(reports') /\ Cardinality(reports') \in {Cardinality(reports), Cardinality(reports) + 1}
  BY <1>1, <1>3, FS_AddElement
<1>5. Cardinality(reports') + Cardinality(upserts) <= MaxReports
  BY <1>1, <1>4
<1>6. TypeOK'
  BY <1>2, <1>3 DEF TypeInv, TypeOK
<1>7. Counted'
  BY <1>3, <1>4, <1>5, NoMore DEF TypeInv, Counted
<1> QED
  BY <1>6, <1>7 DEF TypeInv

\* A report becomes an upsert.
LEMMA IngestTypes ==
    ASSUME TypeInv, Ingest
    PROVE  TypeInv'
<1> DEFINE new(r) == [id |-> Fresh(upserts), hour |-> r.hour, total |-> r.total,
                      step |-> "query", row |-> 0, found |-> 0]
<1>1. PICK r \in reports : reports' = reports \ {r} /\ upserts' = upserts \cup {new(r)}
  BY DEF Ingest
<1>2. UNCHANGED <<used, total, hour, events>>
  BY DEF Ingest, worker
<1>3. /\ IsFiniteSet(reports) /\ IsFiniteSet(upserts)
      /\ Cardinality(reports) \in Nat /\ Cardinality(upserts) \in Nat
      /\ Cardinality(reports) + Cardinality(upserts) <= MaxReports /\ MaxReports \in Nat
  BY AggregateAssumption, FS_CardinalityType DEF TypeInv, Counted
<1>4. /\ IsFiniteSet(reports') /\ Cardinality(reports') = Cardinality(reports) - 1
      /\ Cardinality(reports') \in Nat
  BY <1>1, <1>3, Replaced
<1>5. Fresh(upserts) \in Ids
  BY <1>3, <1>4, FreshIsId
<1>6. new(r) \in Upsert
  <2>1. r.hour \in Hour /\ r.total \in Total /\ 0 \in Total
    BY <1>1, AggregateAssumption DEF TypeInv, TypeOK, Report, Total
  <2> QED
    BY <1>5, <2>1 DEF Upsert
<1>7. new(r).step = "query" /\ new(r).row = 0
  OBVIOUS
<1>8. PICK v : v = new(r)
  OBVIOUS
<1> HIDE DEF new
<1>9. /\ IsFiniteSet(upserts') /\ Cardinality(upserts') \in {Cardinality(upserts), Cardinality(upserts) + 1}
  BY <1>1, <1>3, FS_AddElement
<1>10. Cardinality(reports') + Cardinality(upserts') <= MaxReports
  BY <1>3, <1>4, <1>9
<1>11. TypeOK'
  BY <1>1, <1>2, <1>6, <1>7, <1>8 DEF TypeInv, TypeOK
<1>12. \A w \in upserts' : w.step = "insert" => w \in upserts
  BY <1>1, <1>7
<1>13. Counted'
  BY <1>2, <1>4, <1>9, <1>10, <1>12, NoMore DEF TypeInv, Counted
<1> QED
  BY <1>11, <1>13 DEF TypeInv

\* An upsert that found no row in its hour is about to add the first.
LEMMA QueryTypes ==
    ASSUME TypeInv, NEW u \in upserts, Query(u)
    PROVE  TypeInv'
<1>1. /\ u \in Upsert /\ u.step = "query"
      /\ UNCHANGED <<used, total, hour, reports, events>>
  BY DEF TypeInv, TypeOK, Query, worker
<1>u. u = [id |-> u.id, hour |-> u.hour, total |-> u.total,
           step |-> u.step, row |-> u.row, found |-> u.found]
      /\ u.id \in Ids /\ u.hour \in Hour /\ u.total \in Total /\ u.found \in Total
  BY <1>1 DEF Upsert
<1>2. PICK v : /\ upserts' = (upserts \ {u}) \cup {v} /\ v \in Upsert
               /\ v.hour = u.hour /\ (v.row = 0 <=> v.step # "update")
               /\ v.step = "insert" => Rows(u.hour) = {}
  <2>1. CASE Rows(u.hour) = {} /\ Continues(u, [u EXCEPT !.step = "insert"])
    <3> DEFINE v == [u EXCEPT !.step = "insert"]
    <3>1. v = [id |-> u.id, hour |-> u.hour, total |-> u.total,
               step |-> "insert", row |-> u.row, found |-> u.found]
      BY <1>u
    <3>2. v \in Upsert /\ v.hour = u.hour /\ v.step = "insert" /\ v.row = u.row
      BY <1>1, <3>1 DEF Upsert
    <3>3. u.row = 0
      BY <1>1 DEF TypeInv, TypeOK
    <3> QED
      BY <2>1, <3>2, <3>3 DEF Continues
  <2>2. ASSUME NEW e \in events, Continues(u, [u EXCEPT !.step = "update", !.row = e.id, !.found = e.total])
        PROVE  \E v : /\ upserts' = (upserts \ {u}) \cup {v} /\ v \in Upsert
                      /\ v.hour = u.hour /\ (v.row = 0 <=> v.step # "update")
                      /\ v.step = "insert" => Rows(u.hour) = {}
    <3>2. PICK v : v = [u EXCEPT !.step = "update", !.row = e.id, !.found = e.total]
      OBVIOUS
    <3>3. v = [x \in DOMAIN v |-> v[x]]
      BY ONLY <3>2
    <3>4. DOMAIN v = {"id", "hour", "total", "step", "row", "found"}
      BY ONLY <1>u, <3>2
    <3>5. /\ v.hour = u.hour /\ v.step = "update" /\ v.row = e.id /\ v.found = e.total
          /\ v.id = u.id /\ v.total = u.total
      BY ONLY <1>u, <3>2
    <3>6. v = [id |-> v.id, hour |-> v.hour, total |-> v.total,
               step |-> v.step, row |-> v.row, found |-> v.found]
      BY ONLY <3>3, <3>4
    <3>7. e.id \in Ids /\ e.total \in Total /\ e.id # 0
      BY DEF TypeInv, TypeOK, Report, Ids
    <3>8. v \in Upsert
      BY <1>u, <3>5, <3>6, <3>7 DEF Upsert
    <3> QED
      BY <2>2, <3>2, <3>5, <3>7, <3>8 DEF Continues
  <2> QED
    BY <2>1, <2>2 DEF Query, Rows
<1>3. TypeOK'
  BY <1>1, <1>2 DEF TypeInv, TypeOK
<1>4. /\ IsFiniteSet(upserts) /\ IsFiniteSet(reports) /\ IsFiniteSet(events)
      /\ Cardinality(reports) \in Nat /\ Cardinality(upserts) \in Nat
      /\ Cardinality(reports) + Cardinality(upserts) <= MaxReports /\ MaxReports \in Nat
  BY AggregateAssumption, FS_CardinalityType DEF TypeInv, Counted
<1>5. /\ IsFiniteSet(upserts') /\ Cardinality(upserts') <= Cardinality(upserts)
      /\ Cardinality(upserts') \in Nat
  BY <1>2, <1>4, Replaced
<1>6. Cardinality(reports) + Cardinality(upserts') <= MaxReports
  BY <1>4, <1>5
<1>7. ASSUME NEW h \in Hour
      PROVE  Cardinality(Rows(h))' + Cardinality(Inserting(h))' <= MaxReports
  <2>1. CASE v.step = "insert" /\ h = u.hour
    <3>1. Rows(h)' = {} /\ Cardinality({}) = 0
      BY <1>1, <1>2, <2>1, FS_EmptySet DEF Rows
    <3>2. Inserting(h)' \in SUBSET upserts'
      BY DEF Inserting
    <3>3. IsFiniteSet(Inserting(h)') /\ Cardinality(Inserting(h)') <= Cardinality(upserts')
      BY <1>5, <3>2, FS_Subset
    <3>4. Cardinality(Inserting(h)') \in Nat
      BY <3>3, FS_CardinalityType
    <3> QED
      BY <1>4, <1>5, <1>6, <3>1, <3>3, <3>4
  <2>2. CASE ~(v.step = "insert" /\ h = u.hour)
    <3>1. Rows(h)' = Rows(h) /\ Inserting(h)' \in SUBSET Inserting(h)
      BY <1>1, <1>2, <2>2 DEF Rows, Inserting
    <3>2. IsFiniteSet(Rows(h)) /\ IsFiniteSet(Inserting(h))
      BY FS_Subset DEF TypeInv, Counted, Rows, Inserting
    <3>3. Cardinality(Rows(h)) + Cardinality(Inserting(h)) <= MaxReports
      BY DEF TypeInv, Counted
    <3> QED
      BY <1>4, <3>1, <3>2, <3>3, Fewer
  <2> QED
    BY <2>1, <2>2
<1>8. Counted'
  BY <1>1, <1>4, <1>5, <1>6, <1>7 DEF Counted
<1> QED
  BY <1>3, <1>8 DEF TypeInv

\* One upsert less is about to insert, and one row more is there.
LEMMA InsertTypes ==
    ASSUME TypeInv, NEW u \in upserts, Insert(u)
    PROVE  TypeInv'
<1> DEFINE taken == {e.id : e \in events} \cup {v.row : v \in upserts}
<1>1. /\ u \in Upsert /\ u.step = "insert" /\ upserts' = upserts \ {u}
      /\ UNCHANGED <<used, total, hour, reports>>
      /\ events' = events \cup {[id |-> Min(Ids \ taken), hour |-> u.hour, total |-> u.total]}
  BY DEF TypeInv, TypeOK, Insert, worker
<1>2. Min(Ids \ taken) \in Ids /\ Min(Ids \ taken) \notin {e.id : e \in events}
  BY RowId
<1> HIDE DEF taken
<1>3. PICK e : e = [id |-> Min(Ids \ taken), hour |-> u.hour, total |-> u.total]
  OBVIOUS
<1>4. e \in Report /\ e.hour = u.hour /\ \A f \in events : f.id # e.id
  BY <1>1, <1>2, <1>3 DEF Report, Upsert
<1>5. events' = events \cup {e}
  BY <1>1, <1>3
<1>6. TypeOK'
  BY <1>1, <1>4, <1>5 DEF TypeInv, TypeOK
<1>7. /\ IsFiniteSet(upserts) /\ IsFiniteSet(reports) /\ IsFiniteSet(events)
      /\ Cardinality(reports) \in Nat /\ Cardinality(upserts) \in Nat
      /\ Cardinality(reports) + Cardinality(upserts) <= MaxReports /\ MaxReports \in Nat
  BY AggregateAssumption, FS_CardinalityType DEF TypeInv, Counted
<1>8. /\ IsFiniteSet(upserts') /\ Cardinality(upserts') = Cardinality(upserts) - 1
      /\ IsFiniteSet(events')
  <2>1. IsFiniteSet(events \cup {e})
    BY <1>7, FS_AddElement
  <2>2. IsFiniteSet(upserts \ {u}) /\ Cardinality(upserts \ {u}) = Cardinality(upserts) - 1
    BY <1>7, Replaced
  <2> QED
    BY <1>1, <1>5, <2>1, <2>2
<1>9. ASSUME NEW h \in Hour
      PROVE  Cardinality(Rows(h))' + Cardinality(Inserting(h))' <= MaxReports
  <2>1. IsFiniteSet(Rows(h)) /\ IsFiniteSet(Inserting(h))
    BY <1>7, FS_Subset DEF Rows, Inserting
  <2>2. Cardinality(Rows(h)) + Cardinality(Inserting(h)) <= MaxReports
    BY DEF TypeInv, Counted
  <2>3. CASE h = u.hour
    <3>1. Rows(h)' = Rows(h) \cup {e} /\ Inserting(h)' = Inserting(h) \ {u} /\ u \in Inserting(h)
      BY <1>1, <1>4, <1>5, <2>3 DEF Rows, Inserting
    <3>2. Cardinality(Rows(h)') \in {Cardinality(Rows(h)), Cardinality(Rows(h)) + 1}
      BY <2>1, <3>1, FS_AddElement
    <3>3. /\ Cardinality(Inserting(h)') = Cardinality(Inserting(h)) - 1
          /\ Cardinality(Inserting(h)) \in Nat /\ Cardinality(Rows(h)) \in Nat
      BY <2>1, <3>1, Replaced, FS_CardinalityType
    <3> QED
      BY <1>7, <2>2, <3>2, <3>3
  <2>4. CASE h # u.hour
    <3>1. Rows(h)' = Rows(h) /\ Inserting(h)' = Inserting(h)
      BY <1>1, <1>4, <1>5, <2>4 DEF Rows, Inserting
    <3> QED
      BY <2>2, <3>1
  <2> QED
    BY <2>3, <2>4
<1>10. Cardinality(reports) + Cardinality(upserts') <= MaxReports
  BY <1>7, <1>8
<1>11. Counted'
  BY <1>1, <1>7, <1>8, <1>9, <1>10 DEF Counted
<1> QED
  BY <1>6, <1>11 DEF TypeInv

\* Rows keep their ids and hours.
LEMMA UpdateTypes ==
    ASSUME TypeInv, NEW u \in upserts, Update(u)
    PROVE  TypeInv'
<1> DEFINE n == Plus(u.found, u.total)
           put == [e \in events |-> IF e.id = u.row THEN [e EXCEPT !.total = n] ELSE e]
<1>1. /\ u \in Upsert /\ upserts' = upserts \ {u}
      /\ UNCHANGED <<used, total, hour, reports>>
      /\ events' = {put[e] : e \in events}
  BY DEF TypeInv, TypeOK, Update, worker
<1>2. n \in Total
  BY <1>1, AggregateAssumption DEF Upsert, Total, Plus
<1> HIDE DEF n
<1>3. ASSUME NEW e \in events
      PROVE  put[e] \in Report /\ put[e].id = e.id /\ put[e].hour = e.hour
  <2>1. e \in Report
    BY DEF TypeInv, TypeOK
  <2>2. [e EXCEPT !.total = n] = [id |-> e.id, hour |-> e.hour, total |-> n]
    BY <2>1 DEF Report
  <2>3. e.id \in Ids /\ e.hour \in Hour
    BY <2>1 DEF Report
  <2> QED
    BY <1>2, <2>1, <2>2, <2>3 DEF Report
<1>d. DOMAIN put = events
  OBVIOUS
<1> HIDE DEF put
<1>4. TypeOK'
  BY <1>1, <1>3 DEF TypeInv, TypeOK
<1>5. /\ IsFiniteSet(upserts) /\ IsFiniteSet(reports) /\ IsFiniteSet(events)
      /\ Cardinality(reports) \in Nat /\ Cardinality(upserts) \in Nat
      /\ Cardinality(reports) + Cardinality(upserts) <= MaxReports /\ MaxReports \in Nat
  BY AggregateAssumption, FS_CardinalityType DEF TypeInv, Counted
<1>6. /\ IsFiniteSet(upserts') /\ Cardinality(upserts') = Cardinality(upserts) - 1
      /\ IsFiniteSet(events')
  BY <1>1, <1>5, <1>d, Replaced, Images
<1>7. ASSUME NEW h \in Hour
      PROVE  Cardinality(Rows(h))' + Cardinality(Inserting(h))' <= MaxReports
  <2>1. IsFiniteSet(Rows(h)) /\ IsFiniteSet(Inserting(h))
    BY <1>5, FS_Subset DEF Rows, Inserting
  <2>2. Cardinality(Rows(h)) + Cardinality(Inserting(h)) <= MaxReports
    BY DEF TypeInv, Counted
  <2> DEFINE sub == [e \in Rows(h) |-> put[e]]
  <2>3. Rows(h)' = {sub[e] : e \in Rows(h)} /\ DOMAIN sub = Rows(h)
    BY <1>1, <1>3 DEF Rows
  <2> HIDE DEF sub
  <2>4. Cardinality(Rows(h)') <= Cardinality(Rows(h)) /\ Cardinality(Rows(h)') \in Nat
    BY <2>1, <2>3, Images
  <2>5. Inserting(h)' \in SUBSET Inserting(h)
    BY <1>1 DEF Inserting
  <2>6. /\ Cardinality(Inserting(h)') <= Cardinality(Inserting(h))
        /\ Cardinality(Inserting(h)') \in Nat /\ Cardinality(Inserting(h)) \in Nat
        /\ Cardinality(Rows(h)) \in Nat
    BY <2>1, <2>5, FS_Subset, FS_CardinalityType
  <2> QED
    BY <1>5, <2>2, <2>4, <2>6
<1>8. Cardinality(reports) + Cardinality(upserts') <= MaxReports
  BY <1>5, <1>6
<1>9. Counted'
  BY <1>1, <1>5, <1>6, <1>7, <1>8 DEF Counted
<1> QED
  BY <1>4, <1>9 DEF TypeInv

\* What is lost, failed or deleted is only less.
LEMMA LessTypes ==
    ASSUME TypeInv, hour' \in Hour, used' \in Total, total' \in 0..used',
           reports' \in SUBSET reports, upserts' \in SUBSET upserts, events' \in SUBSET events
    PROVE  TypeInv'
<1>1. TypeOK'
  BY DEF TypeInv, TypeOK
<1>2. /\ IsFiniteSet(reports) /\ IsFiniteSet(upserts) /\ IsFiniteSet(events)
      /\ Cardinality(reports) + Cardinality(upserts) <= MaxReports /\ MaxReports \in Nat
  BY AggregateAssumption DEF TypeInv, Counted
<1>3. /\ IsFiniteSet(reports') /\ IsFiniteSet(upserts') /\ IsFiniteSet(events')
      /\ Cardinality(reports') + Cardinality(upserts') <= MaxReports
  BY <1>2, Fewer, FS_Subset
<1>4. ASSUME NEW h \in Hour
      PROVE  Cardinality(Rows(h))' + Cardinality(Inserting(h))' <= MaxReports
  <2>1. Rows(h)' \in SUBSET Rows(h) /\ Inserting(h)' \in SUBSET Inserting(h)
    BY DEF Rows, Inserting
  <2>2. IsFiniteSet(Rows(h)) /\ IsFiniteSet(Inserting(h))
    BY <1>2, FS_Subset DEF Rows, Inserting
  <2>3. Cardinality(Rows(h)) + Cardinality(Inserting(h)) <= MaxReports
    BY DEF TypeInv, Counted
  <2> QED
    BY <1>2, <2>1, <2>2, <2>3, Fewer
<1> QED
  BY <1>1, <1>3, <1>4 DEF TypeInv, Counted

\* Rows differ by their primary key, an update is on its way to one row, and
\* nothing runs out of ids, for any hours, totals and numbers of reports.
THEOREM TypeCorrect == Spec => []TypeOK
<1>1. Init => TypeInv
  <2> SUFFICES ASSUME Init
               PROVE  TypeInv
    OBVIOUS
  <2>1. TypeOK
    BY AggregateAssumption DEF Init, TypeOK, Total
  <2>2. /\ reports = {} /\ upserts = {} /\ events = {} /\ MaxReports \in Nat
        /\ \A h \in Hour : Rows(h) = {} /\ Inserting(h) = {}
    BY AggregateAssumption DEF Init, Rows, Inserting
  <2>3. Counted
    BY <2>2, FS_EmptySet DEF Counted
  <2> QED
    BY <2>1, <2>3 DEF TypeInv
<1>2. TypeInv /\ [Next]_vars => TypeInv'
  <2> SUFFICES ASSUME TypeInv, [Next]_vars
               PROVE  TypeInv'
    OBVIOUS
  <2>0. hour \in Hour /\ used \in Total /\ total \in 0..used
    BY DEF TypeInv, TypeOK
  <2>1. CASE Use
    <3>1. used' \in Total /\ total' \in 0..used' /\ hour' \in Hour
      BY <2>0, <2>1, AggregateAssumption DEF Use, Total
    <3> QED
      BY <2>1, <3>1, LessTypes DEF Use
  <2>u. CASE UseOther
    BY <2>0, <2>u, LessTypes DEF UseOther
  <2>2. CASE ReportLost
    BY <2>0, <2>2, LessTypes DEF ReportLost, worker
  <2>3. CASE UpsertsFail
    BY <2>0, <2>3, LessTypes DEF UpsertsFail, worker
  <2>4. CASE deleteByIp
    BY <2>0, <2>4, LessTypes DEF deleteByIp, worker
  <2>5. CASE UNCHANGED vars
    BY <2>0, <2>5, LessTypes DEF vars
  <2> QED
    BY <2>1, <2>u, <2>2, <2>3, <2>4, <2>5, PostTypes, IngestTypes, QueryTypes, InsertTypes, UpdateTypes
       DEF Next, Write
<1>3. TypeInv => TypeOK
  BY DEF TypeInv
<1> QED
  BY <1>1, <1>2, <1>3, PTL DEF Spec
=============================================================================
