---------------------------- MODULE HistoryProofs -----------------------------
(***************************************************************************)
(* Proofs about the pages and the catalog, for any number of sessions,     *)
(* directories, messages and pages, and whatever is saved or replaced      *)
(* while they are read.                                                    *)
(***************************************************************************)
EXTENDS History, FiniteSetTheorems, WellFoundedInduction, TLAPS

Message == [of : Ledgers, id : Nat, at : Times, route : Sessions \cup {"hosted", "other", "old"}, root : Nat]
Place == Nat \X {0, 1} \X Nat

Places == {"ask", "begin", "list", "stat", "read", "check", "scanned", "projects", "project", "merge", "join", "done"}

IsRequest(r) ==
    r \in [kind : {"pages", "catalog"}, pc : Places, root : Nat, left : SUBSET Ledgers,
          file : Ledgers \cup {"none"}, fresh : BOOLEAN, text : SUBSET Message,
          records : SUBSET Message, warned : BOOLEAN, cursor : Place \cup {<<>>},
          top : Nat, unread : SUBSET Projects, opened : [Projects -> Nat],
          project : Projects \cup {None}, values : {r.values}, live : SUBSET Sessions,
          merged : {r.merged}, result : {r.result}]
Types ==
    /\ root \in Nat /\ present \in BOOLEAN /\ ledger \in [Ledgers -> SUBSET Message]
    /\ tree \in [top : Nat, dir : [Projects -> Nat \ {None}], holds : {tree.holds}]
    /\ IsRequest(req)
    /\ walk \in [existed : SUBSET Message, shown : Seq(Message), clean : BOOLEAN,
                 current : {walk.current}]

\* A ledger has each id of a route once, and its messages are of the directory it is in, which
\* is there if it has any.
LedgersAreRight ==
    \A l \in Ledgers :
        /\ IsFiniteSet(ledger[l]) /\ (~present => ledger[l] = {})
        /\ \A m \in ledger[l] :
              /\ m.of = l /\ m.root = root
              /\ \A n \in ledger[l] : n.id = m.id /\ n.route = m.route => n = m

\* What a request has read is, as long as its directory is in place, still there.
RecordsAreRight ==
    /\ req.root <= root /\ IsFiniteSet(req.records) /\ IsFiniteSet(req.text)
    /\ req.pc \in {"ask", "projects", "project", "begin", "list"} => req.records = {}
    /\ req.pc # "check" => req.text = {}
    /\ req.left \subseteq Scanned
    /\ req.pc \in {"read", "check"} => req.file \in Scanned
    /\ \A m \in req.records : Belongs(m)
    /\ \A m \in req.records \cup req.text :
          /\ m.of \in Scanned /\ m.root = req.root
          /\ root = req.root => m \in ledger[m.of]
    /\ \A m, n \in req.records : m.of = n.of /\ m.id = n.id /\ m.route = n.route => m = n

\* Without a warning, each message that existed when its caller began has been read
\* or is in a file that is still to be read, as long as its directory is in place.
Remains(m) == m.root = root
NothingIsMissed ==
    /\ req.kind = "catalog" /\ req.pc = "ask" => walk.existed = {}
    /\ \A m \in walk.existed :
          /\ Belongs(m) /\ m.of \in Scanned /\ m.root <= root
          /\ Remains(m) => m \in ledger[m.of]
    /\ ~req.warned =>
          \A m \in walk.existed : Remains(m) =>
             /\ req.pc = "stat" => m \in req.records \/ m.of \in req.left
             /\ req.pc \in {"read", "check"} => m \in req.records \/ m.of \in req.left \cup {req.file}
             /\ req.pc = "check" /\ m.of = req.file => m \in req.text
             /\ req.pc \in {"scanned", "merge", "join"} => m \in req.records

\* A walk's cursor is the oldest message it has shown; what existed when it began
\* has been shown or is older.
Older(m) == req.cursor = <<>> \/ Precedes(Key(m), req.cursor)
WalkIsRight ==
    /\ req.kind = "catalog" => walk.shown = <<>>
    /\ \A i \in 1..Len(walk.shown) :
          /\ walk.shown[i].route = Selected /\ walk.shown[i].of \in {"owner", Selected}
          /\ \A j \in 1..i - 1 : Precedes(Key(walk.shown[i]), Key(walk.shown[j]))
          /\ req.pc # "done" => /\ req.cursor # <<>>
                                /\ \/ req.cursor = Key(walk.shown[i])
                                   \/ Precedes(req.cursor, Key(walk.shown[i]))
    /\ req.kind = "pages" /\ walk.clean =>
          \A m \in walk.existed : Remains(m) =>
             \/ \E i \in 1..Len(walk.shown) : m = walk.shown[i]
             \/ req.pc # "done" /\ Older(m)

\* No directory comes back: one that is in place when what was read of it is used
\* was in place when the scan was over.
CatalogIsRight ==
    /\ req.kind = "pages" => req.pc \notin {"projects", "project", "merge", "join"}
    /\ req.kind = "pages" \/ req.pc = "ask" => req.values = {} /\ req.merged = {}
    /\ req.top <= tree.top
    /\ \A p \in Projects : req.opened[p] <= tree.dir[p]
    /\ req.kind = "catalog" /\ req.top = None =>
          (req.pc # "ask" => req.unread = {}) /\ \A p \in Projects : req.opened[p] = None
    /\ req.kind = "catalog" /\ req.pc = "ask" => req.top = None
    /\ req.pc = "project" => req.project \in Projects \ req.unread /\ req.top # None
    /\ \A v \in req.values :
          /\ v.project \in Projects \ req.unread
          /\ req.opened[v.project] # None => v.dir = <<req.top, req.opened[v.project]>>
    /\ req.pc \notin {"merge", "join", "done"} => req.merged = {}
    /\ req.pc = "merge" => \A p \in Projects :
          req.opened[p] # None => walk.current[p] \in {req.top} \X (req.opened[p]..tree.dir[p])
    /\ \A v \in req.merged : v.dir = walk.current[v.project]

CatalogIsComplete ==
    req.kind = "catalog" /\ At("done") /\ walk.clean =>
        \A m \in walk.existed : Remains(m) =>
           m.route \in DOMAIN req.result /\ req.result[m.route].contact >= m.at

HistoryInv ==
    /\ Types /\ LedgersAreRight /\ RecordsAreRight /\ NothingIsMissed
    /\ WalkIsRight /\ CatalogIsRight /\ CatalogIsComplete

------------------------------------------------------------------------------
(***************************************************************************)
(* Finite sets.                                                            *)
(***************************************************************************)

\* A set of subsets of F that has every subset all of whose proper subsets it has,
\* has F: of the subsets it had not, one would be the smallest.
LEMMA SubsetsOfFinite ==
  ASSUME NEW F, IsFiniteSet(F), NEW Good,
         \A T \in SUBSET F : (\A U \in (SUBSET T) \ {T} : U \in Good) => T \in Good
  PROVE  F \in Good
<1> DEFINE Bad == {T \in SUBSET F : T \notin Good}
<1>1. SUFFICES ASSUME F \notin Good PROVE FALSE
  OBVIOUS
<1>2. Bad # {} /\ Bad \subseteq FiniteSubsetsOf(F)
  BY <1>1, FS_Subset DEF FiniteSubsetsOf
<1>3. PICK T \in Bad : \A U \in Bad : ~ (<<U, T>> \in StrictSubsetOrdering(F))
  <2> HIDE DEF Bad
  <2> QED  BY <1>2, FS_StrictSubsetOrderingWellFounded, WFMin
<1>4. \A U \in (SUBSET T) \ {T} : U \in Good
  BY <1>3 DEF StrictSubsetOrdering
<1> QED  BY <1>3, <1>4

LEMMA MaxIsThere ==
  ASSUME NEW S \in SUBSET Nat, IsFiniteSet(S), S # {}
  PROVE  Max(S) \in S /\ \A y \in S : Max(S) >= y
<1> DEFINE Good == {T \in SUBSET S : T # {} => \E x \in T : \A y \in T : x >= y}
<1>1. ASSUME NEW T \in SUBSET S, \A U \in (SUBSET T) \ {T} : U \in Good PROVE T \in Good
  <2>1. SUFFICES ASSUME NEW z \in T PROVE \E x \in T : \A y \in T : x >= y
    OBVIOUS
  <2>2. CASE T \ {z} = {}
    BY <2>2
  <2>3. CASE T \ {z} # {}
    <3>1. T \ {z} \in Good
      BY <1>1
    <3>2. PICK x \in T \ {z} : \A y \in T \ {z} : x >= y
      BY <2>3, <3>1
    <3>3. x >= z \/ z >= x
      OBVIOUS
    <3> QED  BY <3>2, <3>3
  <2> QED  BY <2>2, <2>3
<1>2. S \in Good
  <2> HIDE DEF Good
  <2> QED  BY <1>1, SubsetsOfFinite, ZenonT(40)
<1>3. \E x \in S : \A y \in S : x >= y
  BY <1>2
<1> QED  BY <1>3 DEF Max

------------------------------------------------------------------------------
(***************************************************************************)
(* The order of the messages.                                              *)
(***************************************************************************)
LEMMA KeyIsPlace ==
  ASSUME NEW m \in Message
  PROVE  Key(m) \in Place
BY BoundsAssumption DEF Message, Place, Key

LEMMA PlacesAreNotEmpty ==
  ASSUME NEW a \in Place
  PROVE  a # <<>>
<1>1. Len(a) = 3
  BY DEF Place
<1>2. Len(<<>>) = 0
  OBVIOUS
<1> QED  BY <1>1, <1>2

LEMMA PlacesAreOrdered ==
  ASSUME NEW a \in Place, NEW b \in Place
  PROVE  /\ Precedes(a, b) \/ Precedes(b, a) \/ a = b
         /\ ~(Precedes(a, b) /\ Precedes(b, a))
         /\ \A c \in Place : Precedes(a, b) /\ Precedes(b, c) => Precedes(a, c)
BY DEF Place, Precedes

\* No two messages have the same place.
Distinct(M) == \A m, n \in M : Key(m) = Key(n) => m = n

LEMMA OldestIsThere ==
  ASSUME NEW M \in SUBSET Message, IsFiniteSet(M), M # {}, Distinct(M)
  PROVE  \E x \in M : \A y \in M \ {x} : Precedes(Key(x), Key(y))
<1> DEFINE Good == {T \in SUBSET M : T # {} => \E x \in T : \A y \in T \ {x} : Precedes(Key(x), Key(y))}
<1>1. ASSUME NEW T \in SUBSET M, \A U \in (SUBSET T) \ {T} : U \in Good PROVE T \in Good
  <2>1. SUFFICES ASSUME NEW z \in T PROVE \E x \in T : \A y \in T \ {x} : Precedes(Key(x), Key(y))
    OBVIOUS
  <2>2. CASE T \ {z} = {}
    BY <2>2
  <2>3. CASE T \ {z} # {}
    <3>1. T \ {z} \in Good
      BY <1>1, ZenonT(40)
    <3>2. PICK x \in T \ {z} : \A y \in (T \ {z}) \ {x} : Precedes(Key(x), Key(y))
      BY <2>3, <3>1
    <3>3. \A m \in T : Key(m) \in Place
      BY KeyIsPlace
    <3>4. Precedes(Key(x), Key(z)) \/ Precedes(Key(z), Key(x))
      BY <3>2, <3>3, PlacesAreOrdered DEF Distinct
    <3>5. CASE Precedes(Key(x), Key(z))
      BY <3>2, <3>5
    <3>6. CASE Precedes(Key(z), Key(x))
      <4>1. ASSUME NEW y \in T \ {z} PROVE Precedes(Key(z), Key(y))
        BY <3>2, <3>3, <3>6, PlacesAreOrdered
      <4> QED  BY <4>1
    <3> QED  BY <3>4, <3>5, <3>6
  <2> QED  BY <2>2, <2>3
<1>2. M \in Good
  <2> HIDE DEF Good
  <2> QED  BY <1>1, SubsetsOfFinite
<1> QED  BY <1>2

Sorts(s, M) ==
    /\ s \in [1..Cardinality(M) -> M]
    /\ \A i, j \in 1..Cardinality(M) : i < j => Precedes(Key(s[j]), Key(s[i]))

\* The oldest goes behind the others.
LEMMA SomethingSorts ==
  ASSUME NEW M \in SUBSET Message, IsFiniteSet(M), Distinct(M)
  PROVE  \E s : Sorts(s, M)
<1> DEFINE Good == {T \in SUBSET M : \E s : Sorts(s, T)}
<1>1. ASSUME NEW T \in SUBSET M, \A U \in (SUBSET T) \ {T} : U \in Good PROVE T \in Good
  <2>0. IsFiniteSet(T)
    BY FS_Subset
  <2>1. CASE T = {}
    <3>1. Cardinality(T) = 0
      BY <2>1, FS_EmptySet
    <3>2. Sorts([i \in 1..0 |-> i], T)
      BY <2>1, <3>1 DEF Sorts
    <3> QED  BY <3>2
  <2>2. CASE T # {}
    <3>1. PICK x \in T : \A y \in T \ {x} : Precedes(Key(x), Key(y))
      BY <2>0, <2>2, OldestIsThere DEF Distinct
    <3>2. T \ {x} \in Good
      BY <1>1
    <3>3. PICK s : Sorts(s, T \ {x})
      BY <3>2
    <3> DEFINE n == Cardinality(T)
    <3>4. n \in Nat /\ n # 0 /\ Cardinality(T \ {x}) = n - 1
      BY <2>0, <2>2, FS_RemoveElement, FS_CardinalityType, FS_EmptySet
    <3> HIDE DEF n
    <3> DEFINE t == [i \in 1..n |-> IF i = n THEN x ELSE s[i]]
    <3>5. \A i \in 1..n : i # n => i \in 1..n - 1
      BY <3>4
    <3>6. s \in [1..n - 1 -> T \ {x}] /\ \A i, j \in 1..n - 1 : i < j => Precedes(Key(s[j]), Key(s[i]))
      BY <3>3, <3>4 DEF Sorts
    <3>7. t \in [1..n -> T]
      BY <3>5, <3>6
    <3>8. ASSUME NEW i \in 1..n, NEW j \in 1..n, i < j PROVE Precedes(Key(t[j]), Key(t[i]))
      <4>1. i # n /\ i \in 1..n - 1
        BY <3>4, <3>8
      <4>2. CASE j = n
        BY <3>1, <3>6, <4>1, <4>2
      <4>3. CASE j # n
        BY <3>5, <3>6, <3>8, <4>1, <4>3
      <4> QED  BY <4>2, <4>3
    <3> HIDE DEF t
    <3>9. Sorts(t, T)
      BY <3>7, <3>8 DEF Sorts, n
    <3> QED  BY <3>9
  <2> QED  BY <2>1, <2>2
<1>2. M \in Good
  <2> HIDE DEF Good
  <2> QED  BY <1>1, SubsetsOfFinite
<1> QED  BY <1>2

\* A page's messages in their order: all of them, the newest first.
LEMMA NewestFirstSorts ==
  ASSUME NEW M \in SUBSET Message, IsFiniteSet(M), Distinct(M)
  PROVE  LET s == NewestFirst(M) IN
         /\ s \in Seq(M) /\ \A m \in M : \E i \in 1..Len(s) : m = s[i]
         /\ \A i, j \in 1..Len(s) : i < j => Precedes(Key(s[j]), Key(s[i]))
<1> DEFINE s == NewestFirst(M)
           n == Cardinality(M)
<1>1. n \in Nat
  BY FS_CardinalityType
<1>2. Sorts(s, M)
  <2>1. \E t \in [1..n -> M] : \A i, j \in 1..n : i < j => Precedes(Key(t[j]), Key(t[i]))
    BY SomethingSorts DEF Sorts
  <2> QED  BY <2>1 DEF NewestFirst, Sorts
<1>3. s \in Seq(M) /\ Len(s) = n
  BY <1>1, <1>2 DEF Sorts
<1>4. s \in Injection(1..n, M)
  <2>1. ASSUME NEW i \in 1..n, NEW j \in 1..n, s[i] = s[j] PROVE i = j
    <3>1. Key(s[i]) \in Place
      BY <1>2, KeyIsPlace DEF Sorts
    <3>2. ~(i < j) /\ ~(j < i)
      BY <1>2, <2>1, <3>1, PlacesAreOrdered DEF Sorts
    <3> QED  BY <1>1, <3>2
  <2> QED  BY <1>2, <2>1 DEF Injection, IsInjective, Sorts
<1>5. s \in Surjection(1..n, M)
  <2>1. Cardinality(1..n) = Cardinality(M)
    BY <1>1, FS_Interval
  <2> QED  BY <1>4, <2>1, FS_Injection
<1>6. \A m \in M : \E i \in 1..n : m = s[i]
  BY <1>5 DEF Surjection
<1> HIDE DEF s, n
<1> QED  BY <1>2, <1>3, <1>6 DEF Sorts, n, s

------------------------------------------------------------------------------
(***************************************************************************)
(* What a step leaves alone.                                               *)
(***************************************************************************)
LEMMA GoingOn ==
  ASSUME NEW r, IsRequest(r)
  PROVE  /\ \A pc \in Places : IsRequest(To(pc, r)) /\ To(pc, r).pc = pc
         /\ IsRequest(Warned(r))
         /\ IsRequest([r EXCEPT !.fresh = FALSE])
BY DEF IsRequest, To, Warned

LEMMA WalkFrame ==
  ASSUME WalkIsRight, walk'.shown = walk.shown, walk'.clean => walk.clean \/ req.kind = "catalog",
         walk'.existed = walk.existed \/ req.kind = "catalog",
         req'.kind = req.kind, req'.cursor = req.cursor,
         (req'.pc = "done") = (req.pc = "done") \/ req.kind = "catalog",
         \A m \in walk.existed : Remains(m)' => Remains(m)
  PROVE  WalkIsRight'
BY DEF WalkIsRight, Older

LEMMA CatalogFrame ==
  ASSUME Types, Types', CatalogIsRight, walk'.current = walk.current,
         req'.kind = req.kind, req'.values = req.values, req'.merged = req.merged, req'.top = req.top,
         req'.unread = req.unread, req'.opened = req.opened, req'.project = req.project,
         \/ req'.pc = req.pc
         \/ /\ req.pc \in {"ask", "projects", "begin", "list", "stat", "read", "check"}
            /\ req.pc = "ask" => req.kind = "pages"
            /\ req'.pc \in {"begin", "list", "stat", "read", "check", "scanned"},
         tree.top <= tree'.top, \A p \in Projects : tree.dir[p] <= tree'.dir[p]
  PROVE  CatalogIsRight'
<1>1. \A p \in Projects : req'.opened[p] <= tree'.dir[p]
  BY DEF CatalogIsRight, Types, IsRequest
<1>2. ASSUME req'.pc = "merge", NEW p \in Projects, req'.opened[p] # None
      PROVE  walk'.current[p] \in {req'.top} \X (req'.opened[p]..tree'.dir[p])
  <2>1. req.pc = "merge"
    BY <1>2
  <2>2. walk.current[p] \in {req.top} \X (req.opened[p]..tree.dir[p])
    BY <1>2, <2>1, ZenonT(30) DEF CatalogIsRight
  <2>3. PICK d \in req.opened[p]..tree.dir[p] : walk.current[p] = <<req.top, d>>
    BY <2>2
  <2>4. d \in req.opened[p]..tree'.dir[p]
    BY <2>3, SMTT(20) DEF Types, IsRequest
  <2> QED  BY <2>3, <2>4
<1>3. req'.top <= tree'.top
  BY DEF CatalogIsRight, Types, IsRequest
<1>4. /\ req'.kind = "pages" => req'.pc \notin {"projects", "project", "merge", "join"}
      /\ req'.kind = "pages" \/ req'.pc = "ask" => req'.values = {} /\ req'.merged = {}
      /\ req'.pc = "project" => req'.project \in Projects \ req'.unread /\ req'.top # None
      /\ req'.kind = "catalog" /\ req'.top = None =>
            (req'.pc # "ask" => req'.unread = {}) /\ \A p \in Projects : req'.opened[p] = None
      /\ req'.kind = "catalog" /\ req'.pc = "ask" => req'.top = None
      /\ req'.pc \notin {"merge", "join", "done"} => req'.merged = {}
  BY DEF CatalogIsRight, Types, IsRequest
<1>5. \A v \in req'.values :
         /\ v.project \in Projects \ req'.unread
         /\ req'.opened[v.project] # None => v.dir = <<req'.top, req'.opened[v.project]>>
  BY DEF CatalogIsRight
<1>6. \A v \in req'.merged : v.dir = walk'.current[v.project]
  BY DEF CatalogIsRight
<1> QED  BY <1>1, <1>2, <1>3, <1>4, <1>5, <1>6 DEF CatalogIsRight

------------------------------------------------------------------------------
(***************************************************************************)
(* What happens meanwhile.                                                 *)
(***************************************************************************)
LEMMA SentIsFinite ==
  ASSUME Types, LedgersAreRight
  PROVE  Cardinality(Sent) \in Nat
<1>1. IsFiniteSet(Ledgers)
  BY SessionsAssumption, FS_Singleton, FS_Union DEF Ledgers
<1> DEFINE S == {ledger[l] : l \in Ledgers}
           f == [l \in Ledgers |-> ledger[l]]
<1>2. f \in Surjection(Ledgers, S)
  BY DEF Surjection
<1>3. IsFiniteSet(S)
  <2> HIDE DEF S, f
  <2> QED  BY <1>1, <1>2, FS_Surjection
<1>4. \A T \in S : IsFiniteSet(T)
  BY DEF LedgersAreRight
<1>5. IsFiniteSet(UNION S)
  <2> HIDE DEF S
  <2> QED  BY <1>3, <1>4, FS_UNION
<1> QED  BY <1>5, FS_CardinalityType DEF Sent

LEMMA SendStep ==
  ASSUME HistoryInv, NEW l \in Ledgers, Send(l)
  PROVE  HistoryInv'
<1> USE DEF HistoryInv
<1>1. PICK m \in Message : /\ m.of = l /\ m.root = root /\ \A n \in ledger[l] : n.id # m.id \/ n.route # m.route
                           /\ ledger' = [ledger EXCEPT ![l] = @ \cup {m}]
  <2>1. PICK id \in IF req.kind = "pages" THEN Ids ELSE {Cardinality(Sent) + 1},
            at \in Times, route \in Routes[req.kind] :
          /\ \A m \in ledger[l] : m.id # id \/ m.route # route
          /\ ledger' = [ledger EXCEPT ![l] = @ \cup {[of |-> l, id |-> id, at |-> at, route |-> route, root |-> root]}]
    BY ZenonT(40) DEF Send
  <2>2. id \in Nat
    BY SentIsFinite, BoundsAssumption
  <2>3. route \in Sessions \cup {"hosted", "other", "old"}
    BY SessionsAssumption DEF Types, IsRequest
  <2> DEFINE m == [of |-> l, id |-> id, at |-> at, route |-> route, root |-> root]
  <2>4. m \in Message
    BY <2>2, <2>3 DEF Message, Types, IsRequest
  <2> QED  BY <2>1, <2>4
<1>2. /\ req.pc # "done" /\ l \in Scanned /\ present /\ UNCHANGED <<root, present, tree, walk>>
      /\ req' \in {req, [req EXCEPT !.fresh = FALSE]}
  BY DEF Send, Replaced
<1>3. /\ req'.kind = req.kind /\ req'.pc = req.pc /\ req'.root = req.root /\ req'.left = req.left /\ req'.file = req.file
      /\ req'.text = req.text /\ req'.records = req.records /\ req'.warned = req.warned /\ req'.cursor = req.cursor
      /\ req'.top = req.top /\ req'.unread = req.unread /\ req'.opened = req.opened /\ req'.project = req.project
      /\ req'.values = req.values /\ req'.live = req.live /\ req'.merged = req.merged /\ req'.result = req.result
  BY <1>2 DEF Types, IsRequest
<1>4. \A k \in Ledgers : /\ ledger'[k] = IF k = l THEN ledger[k] \cup {m} ELSE ledger[k]
                         /\ ledger[k] \subseteq ledger'[k]
  BY <1>1 DEF Types, IsRequest
<1>5. Types'
  BY GoingOn, <1>1, <1>2 DEF Types
<1>6. LedgersAreRight'
  <2>1. ASSUME NEW k \in Ledgers, k # l PROVE ledger'[k] = ledger[k]
    BY <1>4, <2>1
  <2>2. ledger'[l] = ledger[l] \cup {m}
    BY <1>4
  <2>3. IsFiniteSet(ledger'[l])
    <3>1. IsFiniteSet(ledger[l])
      BY ZenonT(20) DEF LedgersAreRight
    <3> QED  BY <2>2, <3>1, FS_AddElement
  <2>4. \A n \in ledger'[l] : /\ n.of = l /\ n.root = root
                              /\ \A o \in ledger'[l] : o.id = n.id /\ o.route = n.route => o = n
    BY <1>1, <2>2 DEF LedgersAreRight
  <2> QED  BY <1>2, <2>1, <2>3, <2>4 DEF LedgersAreRight
<1> USE DEF Scanned, Belongs, Remains
<1>7. \A n \in Message : n.of \in Scanned => n.of \in Ledgers
  BY DEF Message
<1>8. RecordsAreRight'
  BY <1>2, <1>3, <1>4, <1>7, ZenonT(40) DEF RecordsAreRight, Types, IsRequest
<1>9. NothingIsMissed'
  BY <1>2, <1>3, <1>4, <1>7, ZenonT(40) DEF NothingIsMissed, Types, IsRequest
<1>10. WalkIsRight'
  BY <1>2, <1>3, WalkFrame
<1>11. CatalogIsRight'
  BY <1>2, <1>3, <1>5, CatalogFrame DEF Types, IsRequest
<1>12. CatalogIsComplete'
  BY <1>2, <1>3 DEF CatalogIsComplete, At
<1> QED  BY <1>5, <1>6, <1>8, <1>9, <1>10, <1>11, <1>12

LEMMA RewriteStep ==
  ASSUME HistoryInv, NEW l \in Ledgers, Rewrite(l)
  PROVE  HistoryInv'
<1> USE DEF HistoryInv
<1>1. UNCHANGED <<root, present, ledger, tree, walk>> /\ req' \in {req, [req EXCEPT !.fresh = FALSE]}
  BY DEF Rewrite, Replaced
<1>2. /\ req'.kind = req.kind /\ req'.pc = req.pc /\ req'.root = req.root /\ req'.left = req.left /\ req'.file = req.file
      /\ req'.text = req.text /\ req'.records = req.records /\ req'.warned = req.warned /\ req'.cursor = req.cursor
      /\ req'.top = req.top /\ req'.unread = req.unread /\ req'.opened = req.opened /\ req'.project = req.project
      /\ req'.values = req.values /\ req'.live = req.live /\ req'.merged = req.merged /\ req'.result = req.result
  BY <1>1 DEF Types, IsRequest
<1>3. Types'
  BY GoingOn, <1>1 DEF Types
<1>4. LedgersAreRight'
  BY <1>1 DEF LedgersAreRight
<1> USE DEF Scanned, Belongs, Remains
<1>5. RecordsAreRight'
  BY <1>1, <1>2 DEF RecordsAreRight
<1>6. NothingIsMissed'
  BY <1>1, <1>2 DEF NothingIsMissed
<1>7. WalkIsRight'
  BY <1>1, <1>2, WalkFrame
<1>8. CatalogIsRight'
  BY <1>1, <1>2, <1>3, CatalogFrame DEF Types, IsRequest
<1>9. CatalogIsComplete'
  BY <1>1, <1>2 DEF CatalogIsComplete, At
<1> QED  BY <1>3, <1>4, <1>5, <1>6, <1>7, <1>8, <1>9

LEMMA ReplaceStep ==
  ASSUME HistoryInv, ReplaceRoot \/ MakeRoot \/ ReplaceProject \/ ReplaceTree
  PROVE  HistoryInv'
<1> USE DEF HistoryInv
<1>1. req.pc # "done" /\ UNCHANGED <<req, walk>>
  BY DEF ReplaceRoot, MakeRoot, ReplaceProject, ReplaceTree, Replacing
<1>2. /\ \/ root' = root + 1 /\ ledger' = [l \in Ledgers |-> {}]
         \/ UNCHANGED <<root, ledger>>
      /\ present' \in BOOLEAN /\ (~present' => ~present \/ root' = root + 1)
  BY DEF ReplaceRoot, MakeRoot, ReplaceProject, ReplaceTree, Types
<1>3. /\ tree' \in [top : Nat, dir : [Projects -> Nat \ {None}], holds : {tree'.holds}]
      /\ tree.top <= tree'.top /\ \A p \in Projects : tree.dir[p] <= tree'.dir[p]
  <2>1. CASE ReplaceRoot \/ MakeRoot
    BY <2>1 DEF ReplaceRoot, MakeRoot, Types, IsRequest
  <2>2. CASE ReplaceTree
    <3> DEFINE top == tree.top + 1
               holds == [p \in Projects |-> {}]
    <3>1. tree' = [tree EXCEPT !.top = top, !.holds = holds] /\ top \in Nat /\ tree.top <= top
      BY <2>2 DEF ReplaceTree, Types
    <3> HIDE DEF top, holds
    <3>2. tree'.top = top /\ tree'.dir = tree.dir
      BY <3>1 DEF Types
    <3>3. tree' \in [top : Nat, dir : [Projects -> Nat \ {None}], holds : {tree'.holds}]
      BY <3>1, <3>2 DEF Types
    <3>4. \A p \in Projects : tree.dir[p] <= tree'.dir[p]
      BY <3>2 DEF Types
    <3> QED  BY <3>1, <3>2, <3>3, <3>4
  <2>3. CASE ReplaceProject
    <3>1. PICK p \in Projects : tree' = [tree EXCEPT !.dir[p] = @ + 1, !.holds[p] = {}]
      BY <2>3 DEF ReplaceProject
    <3>2. tree'.top = tree.top /\ tree'.dir = [tree.dir EXCEPT ![p] = @ + 1]
      BY <3>1 DEF Types, IsRequest
    <3>3. \A q \in Projects : tree'.dir[q] \in Nat \ {None} /\ tree.dir[q] <= tree'.dir[q]
      BY <3>2 DEF Types, IsRequest, None
    <3>4. tree'.dir \in [Projects -> Nat \ {None}]
      BY <3>2, <3>3 DEF Types
    <3>5. tree' \in [top : Nat, dir : [Projects -> Nat \ {None}], holds : {tree'.holds}]
      BY <3>1, <3>2, <3>4 DEF Types
    <3> QED  BY <3>2, <3>3, <3>5 DEF Types
  <2> QED  BY <2>1, <2>2, <2>3
<1>4. Types'
  BY <1>1, <1>2, <1>3 DEF Types, IsRequest
<1>5. LedgersAreRight'
  <2>1. ASSUME NEW l \in Ledgers
        PROVE  /\ IsFiniteSet(ledger'[l]) /\ (~present' => ledger'[l] = {})
               /\ \A m \in ledger'[l] :
                     /\ m.of = l /\ m.root = root'
                     /\ \A n \in ledger'[l] : n.id = m.id /\ n.route = m.route => n = m
    <3>1. CASE root' = root + 1 /\ ledger' = [k \in Ledgers |-> {}]
      <4>1. ledger'[l] = {}
        BY <3>1
      <4> QED  BY <4>1, FS_EmptySet
    <3>2. CASE UNCHANGED <<root, ledger>>
      <4>1. ~present' => ~present
        BY <1>2, <3>2 DEF Types
      <4> QED  BY <3>2, <4>1, ZenonT(30) DEF LedgersAreRight
    <3> QED  BY <1>2, <3>1, <3>2
  <2> QED  BY <2>1 DEF LedgersAreRight
<1> USE DEF Scanned, Belongs, Remains
<1>6. RecordsAreRight'
  BY <1>1, <1>2 DEF RecordsAreRight, Types, IsRequest
<1>7. NothingIsMissed' /\ \A m \in walk.existed : Remains(m)' => Remains(m)
  <2>1. CASE root' = root + 1 /\ ledger' = [k \in Ledgers |-> {}]
    <3>1. \A m \in walk.existed : m.root <= root /\ m.root \in Nat
      BY DEF NothingIsMissed, Types, Message
    <3>2. \A m \in walk.existed : ~(m.root = root') /\ m.root <= root'
      BY <2>1, <3>1 DEF Types
    <3> QED  BY <1>1, <2>1, <3>2 DEF NothingIsMissed
  <2>2. CASE UNCHANGED <<root, ledger>>
    BY <1>1, <2>2 DEF NothingIsMissed
  <2> QED  BY <1>2, <2>1, <2>2
<1>8. WalkIsRight'
  BY <1>1, <1>7, WalkFrame
<1>9. CatalogIsRight'
  BY <1>1, <1>3, <1>4, CatalogFrame
<1>10. CatalogIsComplete'
  BY <1>1 DEF CatalogIsComplete, At
<1> QED  BY <1>4, <1>5, <1>6, <1>7, <1>8, <1>9, <1>10

------------------------------------------------------------------------------
(***************************************************************************)
(* scanBridgeExchange                                                      *)
(***************************************************************************)

\* What a step of a scan leaves as it was, of the request and of all else.
SameButScan ==
    /\ UNCHANGED <<root, present, ledger, tree, walk>>
    /\ req'.kind = req.kind /\ req'.cursor = req.cursor /\ req'.top = req.top
    /\ req'.root = req.root \/ req.pc = "begin"
    /\ req'.unread = req.unread /\ req'.opened = req.opened /\ req'.project = req.project
    /\ req'.values = req.values /\ req'.live = req.live /\ req'.merged = req.merged /\ req'.result = req.result

LEMMA ScanFrame ==
  ASSUME HistoryInv, Types', SameButScan, RecordsAreRight', NothingIsMissed',
         req.pc \in {"begin", "list", "stat", "read", "check"},
         req'.pc \in {"list", "stat", "read", "check", "scanned"}
  PROVE  HistoryInv'
<1> USE DEF HistoryInv, SameButScan
<1>1. LedgersAreRight'
  BY DEF LedgersAreRight
<1>2. WalkIsRight'
  BY WalkFrame DEF Remains
<1>3. CatalogIsRight'
  BY CatalogFrame DEF Types, IsRequest, Places
<1>4. CatalogIsComplete'
  BY DEF CatalogIsComplete, At
<1> QED  BY <1>1, <1>2, <1>3, <1>4

LEMMA NothingStep ==
  ASSUME HistoryInv, req.pc \in {"begin", "list", "stat", "read", "check"}, Go(Nothing), walk' = walk
  PROVE  HistoryInv'
<1> USE DEF HistoryInv
<1>1. req' = Nothing /\ UNCHANGED <<root, present, ledger, tree>>
  BY DEF Go
<1>2. Types'
  <2> DEFINE r == To("scanned", req)
  <2>1. IsRequest(r)
    BY GoingOn, ZenonT(40) DEF Types, IsRequest, Places
  <2>2. IsRequest([r EXCEPT !.records = {}, !.left = {}, !.file = "none", !.fresh = FALSE, !.text = {}])
    <3> HIDE DEF r
    <3> QED  BY <2>1 DEF IsRequest
  <2> QED  BY <1>1, <2>2, GoingOn DEF Types, IsRequest, Nothing
<1>3. /\ req'.pc = "scanned" /\ req'.records = {} /\ req'.text = {} /\ req'.left = {} /\ req'.warned
      /\ SameButScan /\ req'.root = req.root
  BY <1>1 DEF Types, IsRequest, Nothing, Warned, To, SameButScan
<1>4. RecordsAreRight'
  BY <1>3, FS_EmptySet DEF RecordsAreRight, SameButScan
<1>5. NothingIsMissed'
  BY <1>3 DEF NothingIsMissed, SameButScan, Scanned, Belongs, Remains
<1> QED  BY <1>2, <1>3, <1>4, <1>5, ScanFrame

LEMMA ExistedIsKept ==
  ASSUME HistoryInv, NEW m \in walk.existed, Remains(m)
  PROVE  m \in ledger[m.of] /\ m.of \in Scanned
<1>1. NothingIsMissed
  BY DEF HistoryInv
<1>2. \A e \in walk.existed : e.of \in Scanned /\ (Remains(e) => e \in ledger[e.of])
  BY <1>1 DEF NothingIsMissed
<1> QED  BY <1>2

LEMMA BeginStep ==
  ASSUME HistoryInv, Begin
  PROVE  HistoryInv'
<1> USE DEF HistoryInv
<1>1. CASE Go(Nothing)
  BY <1>1, NothingStep DEF Begin, At
<1>2. CASE ~Go(Nothing)
  <2>1. PICK pc \in {"list", "scanned"}, dir \in {req.root, root} :
          /\ Go([To(pc, req) EXCEPT !.root = dir])
          /\ pc = "scanned" => ~present /\ dir = req.root
    <3>1. CASE present
      BY <1>2, <3>1 DEF Begin
    <3>2. CASE ~present
      <4>1. To("scanned", req) = [To("scanned", req) EXCEPT !.root = req.root]
        BY DEF To, Types, IsRequest
      <4> QED  BY <1>2, <3>2, <4>1 DEF Begin
    <3> QED  BY <3>1, <3>2
  <2>2. req.pc = "begin" /\ walk' = walk
    BY DEF Begin, At
  <2> DEFINE q == To(pc, req)
  <2>3. IsRequest(q)
    BY GoingOn DEF Types, Places
  <2>4. Types'
    <3>1. dir \in Nat
      BY DEF Types, IsRequest
    <3>2. IsRequest([q EXCEPT !.root = dir])
      <4> HIDE DEF q
      <4> QED  BY <2>3, <3>1 DEF IsRequest
    <3> QED  BY <2>1, <2>2, <3>2 DEF Go, Types
  <2>5. /\ SameButScan /\ req'.pc = pc /\ req'.root = dir /\ req'.left = req.left /\ req'.file = req.file
        /\ req'.records = req.records /\ req'.text = req.text /\ req'.warned = req.warned
    BY <2>1, <2>2 DEF Go, To, Types, IsRequest, SameButScan
  <2> HIDE DEF q
  <2> USE DEF SameButScan, Scanned, Belongs, Remains
  <2>6. RecordsAreRight'
    BY <2>1, <2>2, <2>5 DEF RecordsAreRight, Types, IsRequest
  <2>7. NothingIsMissed'
    <3>1. ASSUME pc = "scanned", NEW m \in walk.existed, Remains(m) PROVE FALSE
      <4>1. m \in ledger[m.of] /\ m.of \in Scanned
        BY <3>1, ExistedIsKept
      <4>2. m.of \in Ledgers
        BY <4>1, SessionsAssumption DEF Ledgers
      <4> QED  BY <2>1, <3>1, <4>1, <4>2 DEF LedgersAreRight
    <3> QED  BY <2>1, <2>2, <2>5, <3>1 DEF NothingIsMissed
  <2> QED  BY <2>1, <2>2, <2>4, <2>5, <2>6, <2>7, ScanFrame
<1> QED  BY <1>1, <1>2

LEMMA ListStep ==
  ASSUME HistoryInv, List
  PROVE  HistoryInv'
<1> USE DEF HistoryInv
<1>1. CASE Go(Nothing)
  BY <1>1, NothingStep DEF List, At
<1>2. CASE ~Go(Nothing)
  <2>1. PICK kept \in SUBSET Relevant :
          LET r == [To("stat", req) EXCEPT !.left = kept] IN
          Go(IF kept # Relevant THEN Warned(r) ELSE r)
    BY <1>2 DEF List
  <2>2. ~RootChanged /\ req.pc = "list" /\ walk' = walk /\ kept \subseteq Scanned
    BY <1>2, <2>1 DEF List, At, Relevant
  <2>3. Types'
    <3> DEFINE q == To("stat", req)
               r == [q EXCEPT !.left = kept]
    <3>1. IsRequest(q)
      BY GoingOn DEF Types, Places
    <3>2. kept \subseteq Ledgers
      BY <2>2, SessionsAssumption DEF Scanned, Ledgers
    <3>3. IsRequest(r)
      <4> HIDE DEF q
      <4> QED  BY <3>1, <3>2 DEF IsRequest
    <3> HIDE DEF r
    <3>4. IsRequest(Warned(r))
      BY <3>3, GoingOn
    <3>5. UNCHANGED <<root, present, ledger, tree>> /\ req' \in {r, Warned(r)}
      BY <2>1 DEF Go, r
    <3> QED  BY <2>2, <3>3, <3>4, <3>5 DEF Types
  <2>4. /\ SameButScan /\ req'.pc = "stat" /\ req'.left = kept /\ req'.records = req.records /\ req'.text = req.text
        /\ ~req'.warned => kept = Relevant
    BY <2>1, <2>2 DEF Go, To, Warned, Types, IsRequest, SameButScan
  <2> USE DEF SameButScan, Scanned, Belongs, Remains
  <2>5. RecordsAreRight'
    BY <2>2, <2>4 DEF RecordsAreRight
  <2>6. root = req.root
    BY <2>2 DEF RootChanged
  <2>7. NothingIsMissed'
    <3>1. ASSUME ~req'.warned, NEW m \in walk.existed, Remains(m) PROVE m.of \in req'.left
      <4>1. m \in ledger[m.of] /\ m.of \in Scanned
        BY <2>4, <2>6, <3>1, ExistedIsKept
      <4> QED  BY <2>4, <3>1, <4>1 DEF Relevant
    <3> QED  BY <2>2, <2>4, <3>1 DEF NothingIsMissed
  <2> QED  BY <2>2, <2>3, <2>4, <2>5, <2>7, ScanFrame
<1> QED  BY <1>1, <1>2

LEMMA StatStep ==
  ASSUME HistoryInv, Stat
  PROVE  HistoryInv'
<1> USE DEF HistoryInv
<1>1. CASE Go(Nothing)
  BY <1>1, NothingStep DEF Stat, At
<1>2. CASE ~Go(Nothing)
  <2>1. PICK l \in req.left :
          \/ Go(Warned([req EXCEPT !.left = @ \ {l}]))
          \/ Go([To("read", req) EXCEPT !.left = @ \ {l}, !.file = l, !.fresh = TRUE])
    BY <1>2 DEF Stat
  <2>2. ~RootChanged /\ req.pc = "stat" /\ walk' = walk
    BY <1>2 DEF Stat, At
  <2>3. Types'
    <3> DEFINE q == To("read", req)
               r == [q EXCEPT !.left = @ \ {l}, !.file = l, !.fresh = TRUE]
               w == [req EXCEPT !.left = @ \ {l}]
    <3>1. IsRequest(q)
      BY GoingOn DEF Types, Places
    <3>2. l \in Ledgers
      BY DEF Types, IsRequest
    <3>3. IsRequest(r)
      <4> HIDE DEF q
      <4> QED  BY <3>1, <3>2 DEF IsRequest
    <3>4. IsRequest(Warned(w))
      <4>1. IsRequest(w)
        BY DEF Types, IsRequest
      <4> HIDE DEF w
      <4> QED  BY <4>1, GoingOn
    <3>5. UNCHANGED <<root, present, ledger, tree>> /\ req' \in {r, Warned(w)}
      BY <2>1 DEF Go
    <3> HIDE DEF r, w
    <3> QED  BY <2>2, <3>3, <3>4, <3>5 DEF Types
  <2>4. /\ SameButScan /\ req'.left = req.left \ {l} /\ req'.records = req.records /\ req'.text = req.text
        /\ \/ req'.pc = "stat" /\ req'.warned
           \/ req'.pc = "read" /\ req'.file = l /\ req'.warned = req.warned
    <3>1. CASE Go(Warned([req EXCEPT !.left = @ \ {l}]))
      BY <2>2, <3>1 DEF Go, Warned, Types, IsRequest, SameButScan
    <3>2. CASE Go([To("read", req) EXCEPT !.left = @ \ {l}, !.file = l, !.fresh = TRUE])
      BY <2>2, <3>2 DEF Go, To, Types, IsRequest, SameButScan
    <3> QED  BY <2>1, <3>1, <3>2
  <2> USE DEF SameButScan, Scanned, Belongs, Remains
  <2>5. RecordsAreRight'
    BY <2>2, <2>4 DEF RecordsAreRight
  <2>6. NothingIsMissed'
    BY <2>2, <2>4 DEF NothingIsMissed
  <2> QED  BY <2>2, <2>3, <2>4, <2>5, <2>6, ScanFrame
<1> QED  BY <1>1, <1>2

LEMMA EndScanStep ==
  ASSUME HistoryInv, EndScan
  PROVE  HistoryInv'
<1> USE DEF HistoryInv
<1>1. CASE Go(Nothing)
  BY <1>1, NothingStep DEF EndScan, At
<1>2. CASE ~Go(Nothing)
  <2>1. Go(To("scanned", req)) /\ req.pc = "stat" /\ req.left = {} /\ walk' = walk
    BY <1>2 DEF EndScan, At
  <2>2. Types'
    BY <2>1, GoingOn DEF Go, Types, Places
  <2>3. /\ SameButScan /\ req'.pc = "scanned" /\ req'.left = {} /\ req'.records = req.records /\ req'.text = req.text
        /\ req'.warned = req.warned
    BY <2>1 DEF Go, To, Types, IsRequest, SameButScan
  <2> USE DEF SameButScan, Scanned, Belongs, Remains
  <2>4. RecordsAreRight'
    BY <2>1, <2>3 DEF RecordsAreRight
  <2>5. NothingIsMissed'
    BY <2>1, <2>3 DEF NothingIsMissed
  <2> QED  BY <2>1, <2>2, <2>3, <2>4, <2>5, ScanFrame
<1> QED  BY <1>1, <1>2

LEMMA SkippedStep ==
  ASSUME HistoryInv, req.pc \in {"read", "check"}, Go(Skipped), walk' = walk
  PROVE  HistoryInv'
<1> USE DEF HistoryInv
<1>1. req' = Skipped /\ UNCHANGED <<root, present, ledger, tree>>
  BY DEF Go
<1>2. Types'
  <2> DEFINE q == To("stat", req)
             r == [q EXCEPT !.file = "none", !.fresh = FALSE, !.text = {}]
  <2>1. IsRequest(q)
    BY GoingOn DEF Types, Places
  <2>2. IsRequest(r)
    <3> HIDE DEF q
    <3> QED  BY <2>1 DEF IsRequest
  <2> QED  BY <1>1, <2>2, GoingOn DEF Types, Skipped, Onward
<1>3. /\ SameButScan /\ req'.pc = "stat" /\ req'.left = req.left /\ req'.records = req.records /\ req'.text = {}
      /\ req'.warned
  BY <1>1 DEF Skipped, Onward, To, Warned, Types, IsRequest, SameButScan
<1> USE DEF SameButScan, Scanned, Belongs, Remains
<1>4. RecordsAreRight'
  BY <1>3, FS_EmptySet DEF RecordsAreRight
<1>5. NothingIsMissed'
  BY <1>3 DEF NothingIsMissed
<1> QED  BY <1>2, <1>3, <1>4, <1>5, ScanFrame

LEMMA ReadStep ==
  ASSUME HistoryInv, Read
  PROVE  HistoryInv'
<1> USE DEF HistoryInv
<1>1. CASE Go(Nothing)
  BY <1>1, NothingStep DEF Read, At
<1>2. CASE Go(Skipped)
  BY <1>2, SkippedStep DEF Read, At
<1>3. CASE ~Go(Nothing) /\ ~Go(Skipped)
  <2>1. Go([To("check", req) EXCEPT !.text = ledger[req.file]]) /\ req.pc = "read" /\ ~RootChanged /\ walk' = walk
    BY <1>3 DEF Read, At
  <2>2. req.file \in Ledgers
    BY <2>1, SessionsAssumption DEF RecordsAreRight, Scanned, Ledgers
  <2>3. Types'
    <3> DEFINE q == To("check", req)
    <3>1. IsRequest(q)
      BY GoingOn DEF Types, Places
    <3>2. IsRequest([q EXCEPT !.text = ledger[req.file]])
      <4>1. ledger[req.file] \in SUBSET Message
        BY <2>2 DEF Types
      <4> HIDE DEF q
      <4> QED  BY <3>1, <4>1 DEF IsRequest
    <3> QED  BY <2>1, <3>2 DEF Go, Types
  <2>4. /\ SameButScan /\ req'.pc = "check" /\ req'.left = req.left /\ req'.file = req.file /\ req'.records = req.records
        /\ req'.text = ledger[req.file] /\ req'.warned = req.warned
    BY <2>1 DEF Go, To, Types, IsRequest, SameButScan
  <2>5. root = req.root
    BY <2>1 DEF RootChanged
  <2> USE DEF SameButScan, Scanned, Belongs, Remains
  <2>6. RecordsAreRight'
    BY <2>1, <2>2, <2>4, <2>5 DEF RecordsAreRight, LedgersAreRight
  <2>7. NothingIsMissed'
    <3>1. ASSUME NEW m \in walk.existed, Remains(m), m.of = req.file PROVE m \in req'.text
      BY <2>4, <2>5, <3>1, ExistedIsKept
    <3> QED  BY <2>1, <2>4, <3>1 DEF NothingIsMissed
  <2> QED  BY <2>1, <2>3, <2>4, <2>6, <2>7, ScanFrame
<1> QED  BY <1>1, <1>2, <1>3

LEMMA CheckStep ==
  ASSUME HistoryInv, Check
  PROVE  HistoryInv'
<1> USE DEF HistoryInv
<1>1. CASE Go(Nothing)
  BY <1>1, NothingStep DEF Check, At
<1>2. CASE Go(Skipped)
  BY <1>2, SkippedStep DEF Check, At
<1>3. CASE ~Go(Nothing) /\ ~Go(Skipped)
  <2> DEFINE found == {m \in req.text : Belongs(m)}
             r == [Onward EXCEPT !.records = @ \cup found]
  <2>1. (Go(r) \/ Go(Warned(r))) /\ req.pc = "check" /\ ~RootChanged /\ walk' = walk
    BY <1>3 DEF Check, At
  <2>2. found \subseteq req.text /\ IsFiniteSet(found)
    BY FS_Subset DEF RecordsAreRight
  <2>3. \A m \in req.text : Belongs(m) <=> m \in found
    OBVIOUS
  <2> HIDE DEF found
  <2>4. Types'
    <3> DEFINE p == To("stat", req)
               q == [p EXCEPT !.file = "none", !.fresh = FALSE, !.text = {}]
    <3>1. IsRequest(p)
      BY GoingOn DEF Types, Places
    <3>2. IsRequest(q)
      <4> HIDE DEF p
      <4> QED  BY <3>1 DEF IsRequest
    <3>3. Onward = q
      BY DEF Onward
    <3>4. IsRequest(r)
      <4>1. found \subseteq Message
        BY <2>2 DEF Types, IsRequest
      <4> HIDE DEF q
      <4> QED  BY <3>2, <3>3, <4>1 DEF IsRequest
    <3> HIDE DEF r
    <3>5. IsRequest(Warned(r))
      BY <3>4, GoingOn
    <3>6. UNCHANGED <<root, present, ledger, tree>> /\ req' \in {r, Warned(r)}
      BY <2>1 DEF Go
    <3> QED  BY <2>1, <3>4, <3>5, <3>6 DEF Types
  <2>5. /\ SameButScan /\ req'.pc = "stat" /\ req'.left = req.left /\ req'.records = req.records \cup found
        /\ req'.text = {}
        /\ ~req'.warned => ~req.warned
    <3>1. CASE Go(r)
      BY <2>1, <3>1 DEF Go, Onward, To, Types, IsRequest, SameButScan
    <3>2. CASE Go(Warned(r))
      BY <2>1, <3>2 DEF Go, Onward, To, Warned, Types, IsRequest, SameButScan
    <3> QED  BY <2>1, <3>1, <3>2
  <2>7. root = req.root
    BY <2>1 DEF RootChanged
  <2> USE DEF SameButScan, Scanned
  <2>8. RecordsAreRight'
    <3>1. IsFiniteSet(req'.records) /\ IsFiniteSet(req'.text)
      <4>1. IsFiniteSet(req.records)
        BY DEF RecordsAreRight
      <4>2. IsFiniteSet(req.records \cup found)
        BY <2>2, <4>1, FS_Union
      <4> QED  BY <2>5, <4>2, FS_EmptySet
    <3>2. \A m \in req'.records : Belongs(m)'
      BY <2>2, <2>3, <2>5 DEF RecordsAreRight, Belongs
    <3>3. \A m \in req'.records : m.of \in Scanned /\ m.root = req.root /\ m \in ledger[m.of]
      BY <2>2, <2>5, <2>7 DEF RecordsAreRight
    <3>4. Scanned \subseteq Ledgers
      BY SessionsAssumption DEF Ledgers
    <3>5. \A m, n \in req'.records : m.of = n.of /\ m.id = n.id /\ m.route = n.route => m = n
      BY <3>3, <3>4 DEF LedgersAreRight
    <3>6. /\ req'.root <= root' /\ req'.left \subseteq Scanned'
          /\ req'.pc = "stat" /\ req'.root = req.root /\ UNCHANGED <<root, ledger>>
      BY <2>1, <2>5, <2>7 DEF RecordsAreRight, Types
    <3> QED  BY <2>5, <2>7, <3>1, <3>2, <3>3, <3>5, <3>6 DEF RecordsAreRight
  <2>9. NothingIsMissed'
    <3>1. ASSUME ~req'.warned, NEW m \in walk.existed, Remains(m)
          PROVE  m \in req'.records \/ m.of \in req'.left
      BY <2>1, <2>3, <2>5, <3>1 DEF NothingIsMissed
    <3> QED  BY <2>1, <2>5, <3>1 DEF NothingIsMissed, Belongs, Remains
  <2> QED  BY <2>1, <2>4, <2>5, <2>8, <2>9, ScanFrame
<1> QED  BY <1>1, <1>2, <1>3

------------------------------------------------------------------------------
(***************************************************************************)
(* getBridgeConversation                                                   *)
(***************************************************************************)
LEMMA AskPageStep ==
  ASSUME HistoryInv, AskPage
  PROVE  HistoryInv'
<1> USE DEF HistoryInv
<1>1. /\ req.pc = "ask" /\ req.kind = "pages" /\ UNCHANGED <<root, present, ledger, tree>>
      /\ req' = To("begin", req)
  BY DEF AskPage, At, Go
<1>2. IsRequest(req')
  BY <1>1, GoingOn DEF Types, Places
<1>3. /\ req'.kind = req.kind /\ req'.pc = "begin" /\ req'.root = req.root /\ req'.left = req.left
      /\ req'.text = req.text /\ req'.records = req.records /\ req'.warned = req.warned /\ req'.cursor = req.cursor
      /\ req'.top = req.top /\ req'.unread = req.unread /\ req'.opened = req.opened /\ req'.project = req.project
      /\ req'.values = req.values /\ req'.live = req.live /\ req'.merged = req.merged /\ req'.result = req.result
  BY <1>1 DEF To, Types, IsRequest
<1> DEFINE now == Between(Selected)
<1>4. /\ walk' = IF req.cursor # <<>> THEN walk ELSE [walk EXCEPT !.existed = now]
      /\ "owner" \in Ledgers /\ Selected \in Ledgers
  BY SessionsAssumption DEF AskPage, Ledgers
<1>5. \A m \in now : /\ m \in Message /\ m.route = Selected /\ m.of \in {"owner", Selected} /\ m \in ledger[m.of]
                      /\ m.root = root
  BY <1>4 DEF Types, LedgersAreRight, Between
<1> HIDE DEF now
<1>6. /\ walk'.shown = walk.shown /\ walk'.clean = walk.clean /\ walk'.current = walk.current
      /\ \/ req.cursor # <<>> /\ walk' = walk
         \/ req.cursor = <<>> /\ walk'.existed = now
  BY <1>4 DEF Types
<1>7. Types'
  <2>1. now \in SUBSET Message
    BY <1>5
  <2> QED  BY <1>1, <1>2, <1>4, <2>1 DEF Types
<1>8. LedgersAreRight'
  BY <1>1 DEF LedgersAreRight
<1>9. RecordsAreRight'
  BY <1>1, <1>3 DEF RecordsAreRight, Scanned, Types
<1>10. NothingIsMissed'
  <2>1. CASE walk' = walk
    BY <1>1, <1>3, <2>1 DEF NothingIsMissed, Scanned, Belongs, Remains
  <2>2. CASE walk'.existed = now
    BY <1>1, <1>3, <1>5, <2>2 DEF NothingIsMissed, Scanned, Belongs, Remains, Types
  <2> QED  BY <1>6, <2>1, <2>2
<1>11. WalkIsRight'
  <2>1. CASE walk' = walk
    BY <1>1, <1>3, <2>1, WalkFrame DEF Remains
  <2>2. CASE req.cursor = <<>>
    BY <1>1, <1>3, <1>6, <2>2 DEF WalkIsRight, Older
  <2> QED  BY <1>6, <2>1, <2>2
<1>12. CatalogIsRight'
  BY <1>1, <1>3, <1>6, <1>7, CatalogFrame DEF Types, Places
<1>13. CatalogIsComplete'
  BY <1>1, <1>3 DEF CatalogIsComplete, At
<1> QED  BY <1>7, <1>8, <1>9, <1>10, <1>11, <1>12, <1>13

\* Different records have different places.
LEMMA RecordsAreDistinct ==
  ASSUME HistoryInv, req.kind = "pages"
  PROVE  Distinct(req.records)
<1> SUFFICES ASSUME NEW m \in req.records, NEW n \in req.records, Key(m) = Key(n) PROVE m = n
  BY DEF Distinct
<1>1. m.of \in {"owner", Selected} /\ n.of \in {"owner", Selected} /\ "owner" # Selected
  BY SessionsAssumption DEF HistoryInv, RecordsAreRight, Scanned
<1>2. m.of = n.of /\ m.id = n.id
  BY <1>1 DEF Key
<1>3. m.route = Selected /\ n.route = Selected
  BY DEF HistoryInv, RecordsAreRight, Belongs
<1> QED  BY <1>2, <1>3 DEF HistoryInv, RecordsAreRight

\* A sequence over a set is one over each set that contains it.
LEMMA SeqOfSubset ==
  ASSUME NEW B, NEW A \in SUBSET B, NEW s \in Seq(A)
  PROVE  s \in Seq(B)
  OBVIOUS

LEMMA Appended ==
  ASSUME NEW S, NEW s \in Seq(S), NEW t \in Seq(S)
  PROVE  /\ s \o t \in Seq(S) /\ Len(s \o t) = Len(s) + Len(t)
         /\ \A i \in 1..Len(s) : (s \o t)[i] = s[i]
         /\ \A i \in 1..Len(t) : (s \o t)[Len(s) + i] = t[i]
<1>1. s \o t \in Seq(S) /\ Len(s \o t) = Len(s) + Len(t)
  OBVIOUS
<1>2. \A i \in 1..Len(s) : (s \o t)[i] = s[i]
  OBVIOUS
<1>3. ASSUME NEW i \in 1..Len(t) PROVE (s \o t)[Len(s) + i] = t[i]
  <2>1. Len(s) + i \in 1..Len(s) + Len(t) /\ Len(s) + i > Len(s) /\ Len(s) + i - Len(s) = i
    OBVIOUS
  <2> QED  BY <2>1
<1> QED  BY <1>1, <1>2, <1>3

LEMMA PageStep ==
  ASSUME HistoryInv, Page
  PROVE  HistoryInv'
<1> USE DEF HistoryInv
<1> DEFINE sorted == NewestFirst(Eligible)
           r == [req EXCEPT !.records = {}, !.warned = FALSE]
<1>1. PICK n \in 0..Limit :
        /\ n <= Len(sorted) /\ (n = 0 => sorted = <<>>)
        /\ Go(IF n < Len(sorted) THEN [To("ask", r) EXCEPT !.cursor = Key(sorted[n])] ELSE To("done", r))
        /\ walk' = [walk EXCEPT !.shown = @ \o SubSeq(sorted, 1, n), !.clean = @ /\ ~req.warned]
  BY DEF Page
<1>2. req.pc = "scanned" /\ req.kind = "pages" /\ req.text = {} /\ n \in Nat
  BY BoundsAssumption DEF Page, At, RecordsAreRight
<1>3. /\ Eligible \subseteq req.records /\ Eligible \in SUBSET Message
      /\ \A m \in Eligible : Older(m)
      /\ \A m \in req.records : Older(m) => m \in Eligible
  BY DEF Eligible, Older, Types, IsRequest
<1>4. /\ sorted \in Seq(Message) /\ \A i \in 1..Len(sorted) : sorted[i] \in Eligible
      /\ \A m \in Eligible : \E i \in 1..Len(sorted) : m = sorted[i]
      /\ \A i, j \in 1..Len(sorted) : i < j => Precedes(Key(sorted[j]), Key(sorted[i]))
  <2>1. IsFiniteSet(Eligible)
    BY <1>3, FS_Subset DEF RecordsAreRight
  <2>2. Distinct(Eligible)
    BY <1>2, <1>3, RecordsAreDistinct DEF Distinct
  <2>3. /\ sorted \in Seq(Eligible)
        /\ \A m \in Eligible : \E i \in 1..Len(sorted) : m = sorted[i]
        /\ \A i, j \in 1..Len(sorted) : i < j => Precedes(Key(sorted[j]), Key(sorted[i]))
    BY <1>3, <2>1, <2>2, NewestFirstSorts
  <2> HIDE DEF sorted
  <2>4. sorted \in Seq(Message)
    BY <1>3, <2>3, SeqOfSubset
  <2>5. Len(sorted) \in Nat /\ \A i \in 1..Len(sorted) : sorted[i] \in Eligible
    BY <2>3
  <2> QED  BY <2>3, <2>4, <2>5, Zenon
<1> HIDE DEF sorted
<1> DEFINE more == n < Len(sorted)
           k == Len(walk.shown)
<1>5. Len(sorted) \in Nat /\ k \in Nat /\ (more => n # 0 /\ n \in 1..Len(sorted))
  BY <1>1, <1>2, <1>4 DEF Types
<1>6. \A m \in Message : Key(m) \in Place
  BY KeyIsPlace
<1>7. more => Key(sorted[n]) \in Place
  BY <1>4, <1>5, <1>6
<1>8. /\ UNCHANGED <<root, present, ledger, tree>>
      /\ req'.kind = req.kind /\ req'.pc = (IF more THEN "ask" ELSE "done") /\ req'.root = req.root
      /\ req'.left = req.left /\ req'.text = req.text /\ req'.records = {}
      /\ more => req'.cursor = Key(sorted[n])
      /\ req'.top = req.top /\ req'.unread = req.unread /\ req'.opened = req.opened /\ req'.project = req.project
      /\ req'.values = req.values /\ req'.live = req.live /\ req'.merged = req.merged /\ req'.result = req.result
      /\ IsRequest(req')
  <2>1. IsRequest(r)
    BY DEF Types, IsRequest
  <2>2. /\ r.kind = req.kind /\ r.root = req.root /\ r.left = req.left /\ r.text = req.text /\ r.records = {}
        /\ r.top = req.top /\ r.unread = req.unread /\ r.opened = req.opened /\ r.project = req.project
        /\ r.values = req.values /\ r.live = req.live /\ r.merged = req.merged /\ r.result = req.result
    BY DEF Types, IsRequest
  <2> HIDE DEF r
  <2>3. CASE more
    <3> DEFINE q == To("ask", r)
    <3>1. IsRequest(q)
      BY <2>1, GoingOn DEF Places
    <3>2. req' = [q EXCEPT !.cursor = Key(sorted[n])]
      BY <1>1, <2>3 DEF Go
    <3>3. IsRequest(req')
      <4> HIDE DEF q
      <4> QED  BY <1>7, <2>3, <3>1, <3>2 DEF IsRequest
    <3> QED  BY <1>1, <2>1, <2>2, <2>3, <3>2, <3>3 DEF Go, To, IsRequest
  <2>4. CASE ~more
    <3>1. req' = To("done", r)
      BY <1>1, <2>4 DEF Go
    <3>2. IsRequest(req')
      BY <2>1, <3>1, GoingOn DEF Places
    <3> QED  BY <1>1, <2>1, <2>2, <2>4, <3>1, <3>2, ZenonT(40) DEF Go, To, IsRequest
  <2> QED  BY <2>3, <2>4
<1> HIDE DEF r
<1>9. /\ walk'.existed = walk.existed /\ walk'.current = walk.current
      /\ walk'.clean => walk.clean /\ ~req.warned
      /\ walk'.shown = walk.shown \o SubSeq(sorted, 1, n)
      /\ walk'.shown \in Seq(Message) /\ Len(walk'.shown) = k + n
      /\ \A i \in 1..k : walk'.shown[i] = walk.shown[i]
      /\ \A i \in 1..n : walk'.shown[k + i] = sorted[i]
  <2>1. walk.shown \in Seq(Message)
    BY DEF Types
  <2> DEFINE t == SubSeq(sorted, 1, n)
  <2>2. t \in Seq(Message) /\ Len(t) = n /\ \A i \in 1..n : t[i] = sorted[i]
    BY <1>1, <1>2, <1>4, <1>5
  <2>3. /\ walk'.existed = walk.existed /\ walk'.current = walk.current
        /\ walk'.clean => walk.clean /\ ~req.warned
        /\ walk'.shown = walk.shown \o t
    BY <1>1 DEF Types
  <2> HIDE DEF t
  <2>4. /\ walk'.shown \in Seq(Message) /\ Len(walk'.shown) = k + n
        /\ \A i \in 1..k : walk'.shown[i] = walk.shown[i]
        /\ \A i \in 1..n : walk'.shown[k + i] = t[i]
    <3> DEFINE u == walk.shown
    <3>1. /\ u \o t \in Seq(Message) /\ Len(u \o t) = Len(u) + Len(t)
          /\ \A i \in 1..Len(u) : (u \o t)[i] = u[i]
          /\ \A i \in 1..Len(t) : (u \o t)[Len(u) + i] = t[i]
      <4>1. u \in Seq(Message) /\ t \in Seq(Message)
        BY <2>1, <2>2
      <4> HIDE DEF u
      <4> QED  BY <4>1, Appended
    <3> HIDE DEF u
    <3>2. walk'.shown = u \o t /\ k = Len(u) /\ n = Len(t)
      BY <2>2, <2>3 DEF u
    <3>3. \A i \in 1..k : walk'.shown[i] = u[i]
      BY <3>1, <3>2
    <3>4. \A i \in 1..n : walk'.shown[k + i] = t[i]
      BY <3>1, <3>2
    <3> QED  BY <3>1, <3>2, <3>3, <3>4 DEF u
  <2> QED  BY <2>2, <2>3, <2>4 DEF t
<1>10. Types'
  <2>1. walk'.clean \in BOOLEAN
    BY <1>1 DEF Types
  <2>2. walk' \in [existed : SUBSET Message, shown : Seq(Message), clean : BOOLEAN, current : {walk'.current}]
    BY <1>1, <1>9, <2>1 DEF Types
  <2> QED  BY <1>8, <2>2 DEF Types
<1>11. LedgersAreRight'
  BY <1>8 DEF LedgersAreRight
<1>12. RecordsAreRight'
  BY <1>2, <1>8, FS_EmptySet DEF RecordsAreRight, Scanned
<1>13. NothingIsMissed'
  BY <1>2, <1>8, <1>9 DEF NothingIsMissed, Scanned, Belongs, Remains
<1>14. CatalogIsRight'
  <2>1. req'.pc # "merge" /\ req'.pc # "project" /\ req'.merged = {}
    BY <1>2, <1>8 DEF CatalogIsRight
  <2> QED  BY <1>2, <1>8, <2>1 DEF CatalogIsRight
<1>15. CatalogIsComplete'
  BY <1>2, <1>8 DEF CatalogIsComplete
<1>16. WalkIsRight'
  <2>0. /\ \A i \in 1..k : i \in 1..Len(walk'.shown)
        /\ \A i \in 1..n : k + i \in 1..Len(walk'.shown)
        /\ more => n \in 1..n
    <3>1. /\ \A i \in 1..k : i \in 1..k + n
          /\ \A i \in 1..n : k + i \in 1..k + n
          /\ more => n \in 1..n
      <4> HIDE DEF k
      <4> QED  BY <1>2, <1>5
    <3> QED  BY <1>9, <3>1
  <2>1. \A i \in 1..k + n : i \in 1..k \/ (i - k \in 1..n /\ i = k + (i - k))
    BY <1>2, <1>5
  <2>2. \A i \in 1..k : walk.shown[i] \in Message
    BY DEF Types
  <2>3. \A i \in 1..n : i \in 1..Len(sorted) /\ sorted[i] \in Eligible /\ sorted[i] \in Message
    BY <1>1, <1>2, <1>3, <1>4, <1>5
  <2>4. ASSUME NEW i \in 1..n, NEW j \in 1..k
        PROVE  Precedes(Key(sorted[i]), Key(walk.shown[j]))
    <3>1. /\ req.cursor # <<>>
          /\ req.cursor = Key(walk.shown[j]) \/ Precedes(req.cursor, Key(walk.shown[j]))
      BY <1>2 DEF WalkIsRight
    <3>2. Precedes(Key(sorted[i]), req.cursor)
      BY <1>3, <2>3, <3>1 DEF Older
    <3>3. req.cursor \in Place /\ Key(sorted[i]) \in Place /\ Key(walk.shown[j]) \in Place
      BY <1>6, <2>2, <2>3, <3>1 DEF Types, IsRequest
    <3> QED  BY <3>1, <3>2, <3>3, PlacesAreOrdered
  <2>5. ASSUME NEW i \in 1..Len(walk'.shown)
        PROVE  /\ walk'.shown[i].route = Selected /\ walk'.shown[i].of \in {"owner", Selected}
               /\ \A j \in 1..i - 1 : Precedes(Key(walk'.shown[i]), Key(walk'.shown[j]))
    <3>1. CASE i \in 1..k
      <4>1. \A j \in 1..i - 1 : j \in 1..k
        BY <1>5, <3>1
      <4> QED  BY <1>9, <3>1, <4>1 DEF WalkIsRight
    <3>2. CASE i - k \in 1..n /\ i = k + (i - k)
      <4>1. walk'.shown[i] = sorted[i - k]
        BY <1>9, <3>2
      <4>2. sorted[i - k].route = Selected /\ sorted[i - k].of \in {"owner", Selected}
        BY <1>2, <1>3, <2>3, <3>2 DEF RecordsAreRight, Belongs
      <4>3. ASSUME NEW j \in 1..i - 1 PROVE Precedes(Key(walk'.shown[i]), Key(walk'.shown[j]))
        <5>1. CASE j \in 1..k
          BY <1>9, <2>4, <3>2, <4>1, <5>1
        <5>2. CASE j \notin 1..k
          <6>1. j - k \in 1..n /\ j = k + (j - k) /\ j - k < i - k
            BY <1>2, <1>5, <3>2, <5>2
          <6>2. walk'.shown[j] = sorted[j - k]
            BY <1>9, <6>1
          <6> QED  BY <1>4, <2>3, <3>2, <4>1, <6>1, <6>2
        <5> QED  BY <5>1, <5>2
      <4> QED  BY <4>1, <4>2, <4>3
    <3> QED  BY <1>9, <2>1, <3>1, <3>2
  <2>6. ASSUME more, NEW i \in 1..Len(walk'.shown)
        PROVE  Key(sorted[n]) = Key(walk'.shown[i]) \/ Precedes(Key(sorted[n]), Key(walk'.shown[i]))
    <3>1. CASE i \in 1..k
      BY <1>9, <2>0, <2>4, <2>6, <3>1
    <3>2. CASE i - k \in 1..n /\ i = k + (i - k)
      <4>1. walk'.shown[i] = sorted[i - k]
        BY <1>9, <3>2
      <4>2. i - k = n \/ i - k < n
        BY <1>2, <3>2
      <4> QED  BY <1>4, <1>5, <2>3, <2>6, <3>2, <4>1, <4>2
    <3> QED  BY <1>9, <2>1, <3>1, <3>2
  <2>7. ASSUME walk'.clean, NEW m \in walk.existed, Remains(m)
        PROVE  \/ \E i \in 1..Len(walk'.shown) : m = walk'.shown[i]
               \/ more /\ Precedes(Key(m), Key(sorted[n]))
    <3>1. m \in req.records
      BY <1>2, <1>9, <2>7 DEF NothingIsMissed
    <3>2. CASE \E i \in 1..k : m = walk.shown[i]
      <4>1. PICK i \in 1..k : m = walk.shown[i]
        BY <3>2
      <4>2. i \in 1..Len(walk'.shown) /\ m = walk'.shown[i]
        BY <1>9, <2>0, <4>1
      <4> QED  BY <4>2
    <3>3. CASE Older(m)
      <4>1. PICK i \in 1..Len(sorted) : m = sorted[i]
        BY <1>3, <1>4, <3>1, <3>3
      <4>2. CASE i <= n
        <5>1. i \in 1..n /\ k + i \in 1..Len(walk'.shown)
          BY <1>2, <2>0, <4>1, <4>2
        <5> QED  BY <1>9, <4>1, <5>1
      <4>3. CASE n < i
        <5>1. more
          BY <1>2, <1>5, <4>3
        <5> QED  BY <1>4, <1>5, <4>1, <4>3, <5>1
      <4> QED  BY <1>2, <1>5, <4>2, <4>3
    <3> QED  BY <1>2, <1>9, <2>7, <3>2, <3>3 DEF WalkIsRight
  <2>8. more => req'.cursor # <<>>
    BY <1>7, <1>8, PlacesAreNotEmpty
  <2> QED  BY <1>2, <1>8, <1>9, <2>5, <2>6, <2>7, <2>8 DEF WalkIsRight, Older, Remains
<1> QED  BY <1>10, <1>11, <1>12, <1>13, <1>14, <1>15, <1>16

------------------------------------------------------------------------------
(***************************************************************************)
(* listClaudeConversations                                                 *)
(***************************************************************************)

\* A step of the catalog before or after its scan.
LEMMA BesideTheScan ==
  ASSUME HistoryInv, UNCHANGED <<root, present, ledger>>, req.kind = "catalog", req'.kind = "catalog",
         req'.root = req.root, req'.records = req.records, req'.text = req.text, req'.left = req.left,
         ~req'.warned => ~req.warned,
         walk'.existed = walk.existed, walk'.shown = walk.shown,
         \/ req.pc \in {"projects", "project"} /\ req'.pc \in {"projects", "project", "begin"}
         \/ req.pc \in {"scanned", "merge", "join"} /\ req'.pc \in {"merge", "join", "done"}
  PROVE  LedgersAreRight' /\ RecordsAreRight' /\ NothingIsMissed' /\ WalkIsRight'
<1> USE DEF HistoryInv
<1>1. LedgersAreRight'
  BY DEF LedgersAreRight
<1>2. RecordsAreRight'
  BY DEF RecordsAreRight, Scanned, Belongs, Remains
<1>3. NothingIsMissed'
  BY DEF NothingIsMissed, Scanned, Belongs, Remains
<1>4. WalkIsRight'
  BY DEF WalkIsRight
<1> QED  BY <1>1, <1>2, <1>3, <1>4

LEMMA AskCatalogStep ==
  ASSUME HistoryInv, AskCatalog
  PROVE  HistoryInv'
<1> USE DEF HistoryInv
<1> DEFINE q == To("projects", req)
           none == [q EXCEPT !.unread = {}]
           some == [q EXCEPT !.top = tree.top]
           existed == UNION {Between(s) : s \in Sessions}
<1>1. /\ req.pc = "ask" /\ req.kind = "catalog" /\ UNCHANGED <<root, present, ledger, tree>>
      /\ req' \in {none, Warned(none)} \/ (req' = some /\ tree.top # None)
      /\ walk' = [walk EXCEPT !.existed = existed]
  BY DEF AskCatalog, At, Go
<1>2. IsRequest(q)
  BY GoingOn DEF Types, Places
<1>3. IsRequest(none) /\ IsRequest(some) /\ IsRequest(Warned(none))
  <2>1. IsRequest(none) /\ IsRequest(some)
    <3> HIDE DEF q
    <3> QED  BY <1>2 DEF Types, IsRequest
  <2> HIDE DEF none
  <2> QED  BY <2>1, GoingOn
<1>4. /\ req'.kind = req.kind /\ req'.pc = "projects" /\ req'.root = req.root /\ req'.left = req.left
      /\ req'.text = req.text /\ req'.records = req.records /\ (req'.top = tree.top \/ (req'.top = req.top /\ req'.unread = {}))
      /\ req'.top = None => req'.unread = {}
      /\ req'.opened = req.opened /\ req'.values = req.values /\ req'.merged = req.merged
  <2>1. CASE req' = none
    BY <2>1 DEF To, Types, IsRequest
  <2>2. CASE req' = some /\ tree.top # None
    <3>1. req'.top = tree.top
      BY <2>2 DEF To, Types, IsRequest
    <3>2. /\ req'.kind = req.kind /\ req'.pc = "projects" /\ req'.root = req.root /\ req'.left = req.left
          /\ req'.text = req.text /\ req'.records = req.records
          /\ req'.opened = req.opened /\ req'.values = req.values /\ req'.merged = req.merged
      BY <2>2 DEF To, Types, IsRequest
    <3> HIDE DEF q, none, some, existed
    <3> QED  BY <2>2, <3>1, <3>2
  <2>3. CASE req' = Warned(none)
    BY <2>3 DEF To, Warned, Types, IsRequest
  <2> QED  BY <1>1, <2>1, <2>2, <2>3
<1>5. \A m \in existed : /\ m \in Message /\ m.route \in Sessions /\ m.of \in {"owner", m.route} /\ m.of \in Ledgers
                          /\ m \in ledger[m.of] /\ m.root = root
  BY DEF Between, Ledgers, Types, LedgersAreRight
<1> HIDE DEF q, none, some, existed
<1>6. /\ walk'.existed = existed /\ walk'.shown = walk.shown /\ walk'.current = walk.current
      /\ walk'.clean = walk.clean
  BY <1>1 DEF Types
<1>7. Types'
  BY <1>1, <1>3, <1>5, <1>6 DEF Types
<1>8. LedgersAreRight'
  BY <1>1 DEF LedgersAreRight
<1>9. RecordsAreRight'
  BY <1>1, <1>4 DEF RecordsAreRight, Scanned, Types
<1>10. NothingIsMissed'
  BY <1>1, <1>4, <1>5, <1>6 DEF NothingIsMissed, Scanned, Belongs, Remains, Ledgers, Types
<1>11. WalkIsRight'
  BY <1>1, <1>4, <1>6 DEF WalkIsRight
<1>12. /\ req.values = {} /\ req.merged = {} /\ req.top <= tree.top
       /\ \A p \in Projects : req.opened[p] = None /\ req.opened[p] <= tree.dir[p]
  BY <1>1 DEF CatalogIsRight
<1>13. CatalogIsRight'
  BY <1>1, <1>4, <1>6, <1>12 DEF CatalogIsRight, Types
<1>14. CatalogIsComplete'
  BY <1>4 DEF CatalogIsComplete, At
<1> QED  BY <1>7, <1>8, <1>9, <1>10, <1>11, <1>13, <1>14

LEMMA OpenProjectStep ==
  ASSUME HistoryInv, NEW p \in Projects, OpenProject(p)
  PROVE  HistoryInv'
<1> USE DEF HistoryInv
<1> DEFINE r == [req EXCEPT !.unread = @ \ {p}]
           q == To("project", r)
           opening == [q EXCEPT !.opened[p] = tree.dir[p], !.project = p]
<1>1. /\ req.pc = "projects" /\ p \in req.unread /\ UNCHANGED <<root, present, ledger, tree, walk>>
      /\ req' = Warned(r) \/ (~TreeChanged /\ req' = opening)
  BY DEF OpenProject, At, Go
<1>2. req.kind = "catalog"
  BY <1>1 DEF CatalogIsRight, Types, IsRequest
<1>3. IsRequest(r) /\ IsRequest(q) /\ IsRequest(Warned(r))
  <2>1. IsRequest(r)
    BY DEF Types, IsRequest
  <2> HIDE DEF r
  <2> QED  BY <2>1, GoingOn DEF Places
<1>4. IsRequest(opening)
  <2>1. tree.dir[p] \in Nat
    BY DEF Types
  <2>2. [q.opened EXCEPT ![p] = tree.dir[p]] \in [Projects -> Nat]
    <3> HIDE DEF q
    <3> QED  BY <1>3, <2>1 DEF IsRequest
  <2>3. opening = [q EXCEPT !.opened = [q.opened EXCEPT ![p] = tree.dir[p]], !.project = p]
    <3> HIDE DEF q
    <3> QED  BY <1>3 DEF IsRequest
  <2> HIDE DEF q
  <2> QED  BY <1>3, <2>2, <2>3 DEF IsRequest
<1>5. Types'
  <2> HIDE DEF r, opening
  <2> QED  BY <1>1, <1>3, <1>4 DEF Types
<1>6. /\ req'.kind = req.kind /\ req'.root = req.root /\ req'.left = req.left /\ req'.text = req.text
      /\ req'.records = req.records /\ req'.top = req.top /\ req'.unread = req.unread \ {p}
      /\ req'.values = req.values /\ req'.merged = req.merged
      /\ ~req'.warned => ~req.warned
      /\ \/ req'.pc = "projects" /\ req'.opened = req.opened
         \/ /\ ~TreeChanged /\ req'.pc = "project" /\ req'.project = p
            /\ req'.opened = [req.opened EXCEPT ![p] = tree.dir[p]]
  <2>1. CASE req' = Warned(r)
    BY <1>1, <2>1 DEF Warned, Types, IsRequest
  <2>2. CASE ~TreeChanged /\ req' = opening
    BY <1>1, <2>2 DEF To, Types, IsRequest
  <2> QED  BY <1>1, <2>1, <2>2
<1> HIDE DEF r, q, opening
<1>7. LedgersAreRight' /\ RecordsAreRight' /\ NothingIsMissed' /\ WalkIsRight'
  BY <1>1, <1>2, <1>6, BesideTheScan
<1>8. CatalogIsRight'
  <2>1. \A o \in Projects : /\ req'.opened[o] <= tree'.dir[o]
                            /\ o # p => req'.opened[o] = req.opened[o]
    BY <1>1, <1>6 DEF CatalogIsRight, Types, IsRequest
  <2>2. \A v \in req'.values :
           /\ v.project \in Projects \ req'.unread
           /\ req'.opened[v.project] # None => v.dir = <<req'.top, req'.opened[v.project]>>
    <3> SUFFICES ASSUME NEW v \in req.values
                 PROVE  /\ v.project \in Projects \ req'.unread
                        /\ req'.opened[v.project] # None => v.dir = <<req'.top, req'.opened[v.project]>>
      BY <1>6
    <3>1. /\ v.project \in Projects \ req.unread
          /\ req.opened[v.project] # None => v.dir = <<req.top, req.opened[v.project]>>
      BY DEF CatalogIsRight
    <3>2. v.project # p
      BY <1>1, <3>1
    <3> QED  BY <1>6, <2>1, <3>1, <3>2
  <2>3. /\ req.merged = {} /\ req.top <= tree.top /\ \A v \in req'.merged : v.dir = walk'.current[v.project]
    BY <1>1, <1>6 DEF CatalogIsRight
  <2>4. /\ req'.pc \in {"projects", "project"} /\ req'.merged = {} /\ req'.top <= tree'.top
        /\ req'.pc = "project" => req'.project \in Projects \ req'.unread
        /\ req'.top # None
    BY <1>1, <1>2, <1>6, <2>3 DEF CatalogIsRight
  <2> QED  BY <1>2, <1>6, <2>1, <2>2, <2>3, <2>4 DEF CatalogIsRight
<1>9. CatalogIsComplete'
  BY <1>1, <1>6 DEF CatalogIsComplete, At
<1> QED  BY <1>5, <1>7, <1>8, <1>9

LEMMA LeaveProjectsStep ==
  ASSUME HistoryInv, LeaveProjects
  PROVE  HistoryInv'
<1> USE DEF HistoryInv
<1> DEFINE r == [req EXCEPT !.unread = {}]
<1>1. req.pc = "projects" /\ UNCHANGED <<root, present, ledger, tree, walk>> /\ req' = Warned(r)
  BY DEF LeaveProjects, At, Go
<1>2. req.kind = "catalog"
  BY <1>1 DEF CatalogIsRight, Types, IsRequest
<1>3. Types'
  <2>1. IsRequest(r)
    BY DEF Types, IsRequest
  <2> HIDE DEF r
  <2> QED  BY <1>1, <2>1, GoingOn DEF Types
<1>4. /\ req'.kind = req.kind /\ req'.pc = req.pc /\ req'.root = req.root /\ req'.left = req.left
      /\ req'.text = req.text /\ req'.records = req.records /\ req'.top = req.top /\ req'.unread = {}
      /\ req'.opened = req.opened /\ req'.values = req.values /\ req'.merged = req.merged /\ req'.warned
  BY <1>1 DEF Warned, Types, IsRequest
<1> HIDE DEF r
<1>5. LedgersAreRight' /\ RecordsAreRight' /\ NothingIsMissed' /\ WalkIsRight'
  BY <1>1, <1>2, <1>4, BesideTheScan
<1>6. CatalogIsRight'
  BY <1>1, <1>2, <1>4 DEF CatalogIsRight
<1>7. CatalogIsComplete'
  BY <1>1, <1>4 DEF CatalogIsComplete, At
<1> QED  BY <1>3, <1>5, <1>6, <1>7

LEMMA ReadProjectStep ==
  ASSUME HistoryInv, ReadProject
  PROVE  HistoryInv'
<1> USE DEF HistoryInv
<1>0. PICK unread \in {req.unread, {}} :
       LET p == req.project
           back == [To("projects", req) EXCEPT !.unread = unread] IN
       \/ Go(Warned([back EXCEPT !.opened[p] = None]))
       \/ /\ SameProject(p)
          /\ \E read \in SUBSET tree.holds[p] :
                LET r == [back EXCEPT !.values = @ \cup {[project |-> p, dir |-> <<tree.top, tree.dir[p]>>, of |-> v] : v \in read}] IN
                Go(IF read # tree.holds[p] THEN Warned(r) ELSE r)
  BY DEF ReadProject
<1> DEFINE p == req.project
           at == To("projects", req)
           back == [at EXCEPT !.unread = unread]
           gone == [back EXCEPT !.opened[p] = None]
           found(read) == {[project |-> p, dir |-> <<tree.top, tree.dir[p]>>, of |-> v] : v \in read}
           r(read) == [back EXCEPT !.values = @ \cup found(read)]
<1>1. req.pc = "project" /\ UNCHANGED <<root, present, ledger, tree, walk>>
  BY DEF ReadProject, At, Go
<1>2. req.kind = "catalog" /\ p \in Projects \ req.unread /\ req.top # None
  BY <1>1 DEF CatalogIsRight, Types, IsRequest
<1>3. IsRequest(back)
  <2>1. IsRequest(at) /\ unread \in SUBSET Projects
    BY GoingOn DEF Types, Places, IsRequest
  <2> HIDE DEF at
  <2> QED  BY <2>1 DEF IsRequest
<1>4. /\ back.kind = req.kind /\ back.pc = "projects" /\ back.root = req.root /\ back.left = req.left
      /\ back.text = req.text /\ back.records = req.records /\ back.top = req.top /\ back.unread = unread
      /\ back.values = req.values /\ back.merged = req.merged /\ back.warned = req.warned /\ back.opened = req.opened
  BY DEF To, Types, IsRequest
<1>5. CASE req' = Warned(gone)
  <2>1. gone = [back EXCEPT !.opened = [req.opened EXCEPT ![p] = None]]
    <3> HIDE DEF at, back, p
    <3> QED  BY <1>3, <1>4 DEF IsRequest
  <2>2. [req.opened EXCEPT ![p] = None] \in [Projects -> Nat]
    BY DEF Types, IsRequest, None
  <2> HIDE DEF at, back, p
  <2>3. IsRequest(gone) /\ gone.pc = "projects"
    BY <1>3, <1>4, <2>1, <2>2 DEF IsRequest
  <2>4. IsRequest(Warned(gone))
    <3> HIDE DEF gone
    <3> QED  BY <2>3, GoingOn
  <2>5. Types'
    BY <1>1, <1>5, <2>4 DEF Types
  <2>6. /\ req'.kind = req.kind /\ req'.pc = "projects" /\ req'.root = req.root /\ req'.left = req.left
        /\ req'.text = req.text /\ req'.records = req.records /\ req'.top = req.top /\ req'.unread = unread
        /\ req'.values = req.values /\ req'.merged = req.merged /\ req'.warned
        /\ req'.opened = [req.opened EXCEPT ![p] = None]
    BY <1>3, <1>4, <1>5, <2>1 DEF Warned, IsRequest
  <2>7. LedgersAreRight' /\ RecordsAreRight' /\ NothingIsMissed' /\ WalkIsRight'
    BY <1>1, <1>2, <2>6, BesideTheScan
  <2>8. \A o \in Projects : req'.opened[o] <= tree'.dir[o] /\ req'.opened[o] \in {None, req.opened[o]}
    <3>1. req.opened \in [Projects -> Nat] /\ p \in Projects /\ UNCHANGED tree
      BY <1>1, <1>2 DEF Types, IsRequest
    <3>2. \A o \in Projects : req.opened[o] <= tree.dir[o] /\ tree.dir[o] \in Nat
      BY DEF CatalogIsRight, Types
    <3>3. req'.opened = [req.opened EXCEPT ![p] = None]
      BY <2>6
    <3> HIDE DEF p, at, back, gone, found, r
    <3> QED  BY <3>1, <3>2, <3>3 DEF None
  <2>9. unread \subseteq req.unread
    OBVIOUS
  <2>10. /\ \A v \in req'.values :
              /\ v.project \in Projects \ req'.unread
              /\ req'.opened[v.project] # None => v.dir = <<req'.top, req'.opened[v.project]>>
         /\ req'.top <= tree'.top /\ req'.merged = {} /\ req'.top # None
    <3>1. /\ \A v \in req.values : v.project \in Projects \ req.unread
          /\ \A v \in req.values : req.opened[v.project] # None => v.dir = <<req.top, req.opened[v.project]>>
          /\ req.top <= tree.top /\ req.merged = {}
      BY <1>1 DEF CatalogIsRight
    <3> HIDE DEF p, at, back, gone, found, r
    <3> QED  BY <1>1, <1>2, <2>6, <2>8, <2>9, <3>1
  <2>11. CatalogIsRight'
    BY <1>2, <2>6, <2>8, <2>10 DEF CatalogIsRight
  <2>12. CatalogIsComplete'
    BY <2>6 DEF CatalogIsComplete, At
  <2> QED  BY <2>5, <2>7, <2>11, <2>12
<1>6. CASE SameProject(p) /\ \E read : req' \in {r(read), Warned(r(read))}
  <2>1. PICK read : req' \in {r(read), Warned(r(read))}
    BY <1>6
  <2> DEFINE new == found(read)
  <2>2. \A v \in new : v.project = p /\ v.dir = <<req.top, req.opened[p]>>
    <3>1. tree.top = req.top /\ tree.dir[p] = req.opened[p]
      BY <1>2, <1>6 DEF SameProject, TreeChanged
    <3> HIDE DEF p, at, back, gone, r
    <3>2. \A v \in new : \E w \in read : v = [project |-> p, dir |-> <<tree.top, tree.dir[p]>>, of |-> w]
      OBVIOUS
    <3> HIDE DEF new, found
    <3> QED  BY <3>1, <3>2
  <2> HIDE DEF at, back, p, new
  <2>3. IsRequest(r(read)) /\ r(read).pc = "projects"
    BY <1>3, <1>4 DEF IsRequest
  <2>4. IsRequest(Warned(r(read)))
    <3> HIDE DEF r
    <3> QED  BY <2>3, GoingOn
  <2>5. Types'
    <3> HIDE DEF r
    <3> QED  BY <1>1, <2>1, <2>3, <2>4 DEF Types
  <2>6. /\ req'.kind = req.kind /\ req'.pc = "projects" /\ req'.root = req.root /\ req'.left = req.left
        /\ req'.text = req.text /\ req'.records = req.records /\ req'.top = req.top /\ req'.unread = unread
        /\ req'.values = req.values \cup new /\ req'.merged = req.merged /\ req'.opened = req.opened
        /\ ~req'.warned => ~req.warned
    <3>1. CASE req' = r(read)
      BY <1>3, <1>4, <3>1 DEF IsRequest, new
    <3>2. CASE req' = Warned(r(read))
      BY <1>3, <1>4, <3>2 DEF Warned, IsRequest, new
    <3> QED  BY <2>1, <3>1, <3>2
  <2>7. LedgersAreRight' /\ RecordsAreRight' /\ NothingIsMissed' /\ WalkIsRight'
    BY <1>1, <1>2, <2>6, BesideTheScan
  <2>8. \A v \in req'.values :
           /\ v.project \in Projects \ req'.unread
           /\ req'.opened[v.project] # None => v.dir = <<req'.top, req'.opened[v.project]>>
    BY <1>2, <2>2, <2>6 DEF CatalogIsRight
  <2>9. CatalogIsRight'
    BY <1>1, <1>2, <2>6, <2>8 DEF CatalogIsRight
  <2>10. CatalogIsComplete'
    BY <2>6 DEF CatalogIsComplete, At
  <2> QED  BY <2>5, <2>7, <2>9, <2>10
<1>7. (req' = Warned(gone)) \/ (SameProject(p) /\ \E read : req' \in {r(read), Warned(r(read))})
  BY <1>0 DEF Go
<1> QED  BY <1>5, <1>6, <1>7

LEMMA DiscoverStep ==
  ASSUME HistoryInv, Discover
  PROVE  HistoryInv'
<1> USE DEF HistoryInv
<1> PICK found \in SUBSET Live :
       LET r == [To("begin", req) EXCEPT !.live = found] IN Go(r) \/ Go(Warned(r))
  BY DEF Discover
<1> DEFINE q == To("begin", req)
           r == [q EXCEPT !.live = found]
<1>1. /\ req.pc = "projects" /\ UNCHANGED <<root, present, ledger, tree, walk>>
      /\ req' \in {r, Warned(r)}
  BY DEF Discover, At, Go
<1>2. req.kind = "catalog"
  BY <1>1 DEF CatalogIsRight, Types, IsRequest
<1>3. /\ req'.kind = req.kind /\ req'.pc = "begin" /\ req'.root = req.root /\ req'.left = req.left
      /\ req'.text = req.text /\ req'.records = req.records /\ req'.top = req.top /\ req'.unread = req.unread
      /\ req'.opened = req.opened /\ req'.project = req.project
      /\ req'.values = req.values /\ req'.merged = req.merged
      /\ ~req'.warned => ~req.warned
  <2>1. CASE req' = r
    BY <2>1 DEF To, Types, IsRequest
  <2>2. CASE req' = Warned(r)
    BY <2>2 DEF To, Warned, Types, IsRequest
  <2> QED  BY <1>1, <2>1, <2>2
<1>4. Types'
  <2>1. IsRequest(q)
    BY GoingOn DEF Types, Places
  <2>2. IsRequest(r)
    <3> HIDE DEF q
    <3> QED  BY <2>1, HoldsAssumption DEF IsRequest
  <2> HIDE DEF q, r
  <2>3. IsRequest(Warned(r))
    BY <2>2, GoingOn
  <2>4. IsRequest(req')
    BY <1>1, <2>2, <2>3
  <2> QED  BY <1>1, <2>4 DEF Types
<1> HIDE DEF q, r
<1>6. LedgersAreRight' /\ RecordsAreRight' /\ NothingIsMissed' /\ WalkIsRight'
  BY <1>1, <1>2, <1>3, BesideTheScan
<1>7. CatalogIsRight'
  BY <1>1, <1>3, <1>4, CatalogFrame DEF Types
<1>8. CatalogIsComplete'
  BY <1>3 DEF CatalogIsComplete, At
<1> QED  BY <1>4, <1>6, <1>7, <1>8

LEMMA CheckTreeStep ==
  ASSUME HistoryInv, CheckTree
  PROVE  HistoryInv'
<1> USE DEF HistoryInv
<1> DEFINE now == [p \in Projects |-> <<tree.top, tree.dir[p]>>]
<1>1. /\ req.pc = "scanned" /\ req.kind = "catalog" /\ UNCHANGED <<root, present, ledger, tree>>
      /\ walk' = [walk EXCEPT !.current = now]
      /\ req' = IF TreeChanged THEN Warned(To("join", req)) ELSE To("merge", req)
  BY DEF CheckTree, At, Go
<1>2. /\ req'.kind = req.kind /\ req'.root = req.root /\ req'.left = req.left /\ req'.text = req.text
      /\ req'.records = req.records /\ req'.top = req.top /\ req'.unread = req.unread /\ req'.opened = req.opened
      /\ req'.values = req.values /\ req'.merged = req.merged
      /\ ~req'.warned => ~req.warned
      /\ req'.pc \in {"merge", "join"} /\ (req'.pc = "merge" => ~TreeChanged)
  <2>1. CASE TreeChanged
    BY <1>1, <2>1 DEF To, Warned, Types, IsRequest
  <2>2. CASE ~TreeChanged
    BY <1>1, <2>2 DEF To, Types, IsRequest
  <2> QED  BY <2>1, <2>2
<1>3. \A p \in Projects : now[p] = <<tree.top, tree.dir[p]>>
  OBVIOUS
<1> HIDE DEF now
<1>4. /\ walk'.existed = walk.existed /\ walk'.shown = walk.shown /\ walk'.current = now
  BY <1>1 DEF Types
<1>5. Types'
  <2>1. IsRequest(req')
    BY <1>1, GoingOn DEF Types, Places
  <2> QED  BY <1>1, <1>4, <2>1 DEF Types
<1>6. LedgersAreRight' /\ RecordsAreRight' /\ NothingIsMissed' /\ WalkIsRight'
  BY <1>1, <1>2, <1>4, BesideTheScan
<1>7. CatalogIsRight'
  <2>1. ASSUME req'.pc = "merge", NEW p \in Projects, req'.opened[p] # None
        PROVE  walk'.current[p] \in {req'.top} \X (req'.opened[p]..tree'.dir[p])
    <3>1. tree.dir[p] \in req.opened[p]..tree.dir[p]
      BY DEF CatalogIsRight, Types, IsRequest
    <3>2. walk'.current[p] = <<req'.top, tree.dir[p]>>
      BY <1>1, <1>2, <1>3, <1>4, <2>1 DEF TreeChanged, CatalogIsRight
    <3>3. tree.dir[p] \in req'.opened[p]..tree'.dir[p]
      BY <1>1, <1>2, <3>1
    <3> QED  BY <3>2, <3>3
  <2>2. req.merged = {}
    BY <1>1 DEF CatalogIsRight
  <2> QED  BY <1>1, <1>2, <2>1, <2>2 DEF CatalogIsRight
<1>8. CatalogIsComplete'
  BY <1>2 DEF CatalogIsComplete, At
<1> QED  BY <1>5, <1>6, <1>7, <1>8

\* The heart of the catalog: who finds the directory of a project in place finds
\* the one that was there when the scan was over.
LEMMA MergeStep ==
  ASSUME HistoryInv, NEW p \in Projects, Merge(p)
  PROVE  HistoryInv'
<1> USE DEF HistoryInv
<1> DEFINE r == [req EXCEPT !.opened[p] = None]
           mine == {v \in req.values : v.project = p}
           more == [r EXCEPT !.merged = @ \cup mine]
<1>1. /\ req.pc = "merge" /\ req.opened[p] # None /\ UNCHANGED <<root, present, ledger, tree, walk>>
      /\ req' = IF SameProject(p) THEN more ELSE Warned(r)
  BY DEF Merge, At, Go
<1>2. req.kind = "catalog"
  BY <1>1 DEF CatalogIsRight, Types, IsRequest
<1>3. ASSUME SameProject(p), NEW v \in mine PROVE v.dir = walk.current[v.project]
  <2>1. v.dir = <<req.top, req.opened[p]>> /\ v.project = p
    BY <1>1 DEF CatalogIsRight
  <2>2. req.opened[p] = tree.dir[p] /\ tree.dir[p] \in Nat
    BY <1>3 DEF SameProject, Types
  <2>3. PICK d \in req.opened[p]..tree.dir[p] : walk.current[p] = <<req.top, d>>
    BY <1>1 DEF CatalogIsRight
  <2>4. d = req.opened[p]
    BY <2>2, <2>3
  <2> QED  BY <2>1, <2>3, <2>4
<1>4. IsRequest(r)
  <2>1. [req.opened EXCEPT ![p] = None] \in [Projects -> Nat]
    BY DEF Types, IsRequest, None
  <2>2. r = [req EXCEPT !.opened = [req.opened EXCEPT ![p] = None]]
    BY DEF Types, IsRequest
  <2> QED  BY <2>1, <2>2 DEF Types, IsRequest
<1>5. /\ r.kind = req.kind /\ r.pc = "merge" /\ r.root = req.root /\ r.left = req.left /\ r.text = req.text
      /\ r.records = req.records /\ r.top = req.top /\ r.unread = req.unread
      /\ r.values = req.values /\ r.merged = req.merged /\ r.warned = req.warned
      /\ r.opened = [req.opened EXCEPT ![p] = None]
  BY <1>1 DEF Types, IsRequest
<1> HIDE DEF r, mine
<1>6. /\ IsRequest(req') /\ req'.kind = req.kind /\ req'.root = req.root /\ req'.left = req.left
      /\ req'.text = req.text /\ req'.records = req.records /\ req'.top = req.top /\ req'.unread = req.unread
      /\ req'.values = req.values /\ req'.pc = "merge"
      /\ req'.opened = [req.opened EXCEPT ![p] = None]
      /\ \/ req'.merged = req.merged /\ req'.warned
         \/ SameProject(p) /\ req'.merged = req.merged \cup mine /\ req'.warned = req.warned
  <2>1. CASE SameProject(p)
    BY <1>1, <1>4, <1>5, <2>1 DEF IsRequest
  <2>2. CASE ~SameProject(p)
    <3>1. IsRequest(Warned(r))
      BY <1>4, GoingOn
    <3> QED  BY <1>1, <1>4, <1>5, <2>2, <3>1 DEF Warned, IsRequest
  <2> QED  BY <2>1, <2>2
<1>7. Types'
  BY <1>1, <1>6 DEF Types
<1>8. LedgersAreRight' /\ RecordsAreRight' /\ NothingIsMissed' /\ WalkIsRight'
  BY <1>1, <1>2, <1>6, BesideTheScan
<1>9. CatalogIsRight'
  <2>1. \A o \in Projects : req'.opened[o] \in {None, req.opened[o]} /\ req'.opened[o] <= tree'.dir[o]
    <3>1. \A o \in Projects : req'.opened[o] = IF o = p THEN None ELSE req.opened[o]
      BY <1>6 DEF Types, IsRequest
    <3>2. \A o \in Projects : req.opened[o] <= tree'.dir[o] /\ None <= tree'.dir[o]
      BY <1>1 DEF CatalogIsRight, Types, None
    <3> QED  BY <3>1, <3>2
  <2>2. ASSUME NEW o \in Projects, req'.opened[o] # None
        PROVE  walk'.current[o] \in {req'.top} \X (req'.opened[o]..tree'.dir[o])
    <3>1. PICK d \in req.opened[o]..tree.dir[o] : walk.current[o] = <<req.top, d>>
      BY <1>1, <2>1, <2>2 DEF CatalogIsRight
    <3>2. req.opened[o] \in Nat /\ tree.dir[o] \in Nat
      BY DEF Types, IsRequest
    <3>3. d \in req'.opened[o]..tree.dir[o]
      BY <2>1, <3>1, <3>2 DEF None
    <3> QED  BY <1>1, <1>6, <3>1, <3>3
  <2>3. \A v \in req'.merged : v.dir = walk'.current[v.project]
    BY <1>1, <1>3, <1>6 DEF CatalogIsRight
  <2>4. \A v \in req'.values :
           /\ v.project \in Projects \ req'.unread
           /\ req'.opened[v.project] # None => v.dir = <<req'.top, req'.opened[v.project]>>
    BY <1>6, <2>1 DEF CatalogIsRight
  <2> QED  BY <1>1, <1>2, <1>6, <2>1, <2>2, <2>3, <2>4 DEF CatalogIsRight
<1>10. CatalogIsComplete'
  BY <1>6 DEF CatalogIsComplete, At
<1> QED  BY <1>7, <1>8, <1>9, <1>10

LEMMA CheckTreeAgainStep ==
  ASSUME HistoryInv, CheckTreeAgain
  PROVE  HistoryInv'
<1> USE DEF HistoryInv
<1> DEFINE q == To("join", req)
           none == [q EXCEPT !.merged = {}]
<1>1. /\ req.pc = "merge" /\ UNCHANGED <<root, present, ledger, tree, walk>>
      /\ req' = IF TreeChanged THEN Warned(none) ELSE q
  BY DEF CheckTreeAgain, At, Go
<1>2. req.kind = "catalog"
  BY <1>1 DEF CatalogIsRight, Types, IsRequest
<1>3. /\ req'.kind = req.kind /\ req'.root = req.root /\ req'.left = req.left /\ req'.text = req.text
      /\ req'.records = req.records /\ req'.top = req.top /\ req'.unread = req.unread /\ req'.opened = req.opened
      /\ req'.values = req.values /\ req'.merged \in {{}, req.merged} /\ req'.pc = "join"
      /\ ~req'.warned => ~req.warned
  <2>1. CASE TreeChanged
    BY <1>1, <2>1 DEF To, Warned, Types, IsRequest
  <2>2. CASE ~TreeChanged
    BY <1>1, <2>2 DEF To, Types, IsRequest
  <2> QED  BY <2>1, <2>2
<1>4. Types'
  <2>1. IsRequest(q)
    BY GoingOn DEF Types, Places
  <2>2. IsRequest(none)
    <3> HIDE DEF q
    <3> QED  BY <2>1 DEF IsRequest
  <2> HIDE DEF q, none
  <2>3. IsRequest(Warned(none))
    BY <2>2, GoingOn
  <2> QED  BY <1>1, <2>1, <2>3 DEF Types
<1> HIDE DEF q, none
<1>5. LedgersAreRight' /\ RecordsAreRight' /\ NothingIsMissed' /\ WalkIsRight'
  BY <1>1, <1>2, <1>3, BesideTheScan
<1>6. CatalogIsRight'
  BY <1>1, <1>2, <1>3 DEF CatalogIsRight
<1>7. CatalogIsComplete'
  BY <1>3 DEF CatalogIsComplete, At
<1> QED  BY <1>4, <1>5, <1>6, <1>7

LEMMA JoinStep ==
  ASSUME HistoryInv, Join
  PROVE  HistoryInv'
<1> USE DEF HistoryInv
<1> DEFINE activity(s) == {v.of.activity : v \in {v \in req.merged : v.of.session = s}}
           contact(s) == {m.at : m \in {m \in req.records : m.route = s}}
           listed == {s \in Sessions : s \in req.live \/ (activity(s) \cup contact(s)) # {}}
           result == [s \in listed |->
                        [live |-> s \in req.live, activity |-> Max(activity(s) \cup {None}),
                         contact |-> Max(contact(s) \cup {None})]]
<1>1. /\ req.pc = "join" /\ UNCHANGED <<root, present, ledger, tree>>
      /\ req' = [To("done", req) EXCEPT !.result = result]
      /\ walk' = [walk EXCEPT !.clean = ~req.warned]
  BY DEF Join, At, Go
<1>2. req.kind = "catalog"
  BY <1>1 DEF CatalogIsRight, Types, IsRequest
<1>4. ASSUME NEW m \in req.records PROVE m.route \in DOMAIN result /\ result[m.route].contact >= m.at
  <2> DEFINE s == m.route
             theirs == {n \in req.records : n.route = s}
             f == [n \in theirs |-> n.at]
  <2>1. s \in Sessions
    BY <1>2 DEF RecordsAreRight, Belongs
  <2>2. m.at \in contact(s)
    OBVIOUS
  <2>3. contact(s) \subseteq Nat
    BY BoundsAssumption, SMTT(20) DEF Types, IsRequest, Message
  <2>4. IsFiniteSet(contact(s))
    <3>1. IsFiniteSet(theirs)
      BY FS_Subset DEF RecordsAreRight
    <3>2. f \in Surjection(theirs, contact(s))
      BY DEF Surjection
    <3> HIDE DEF theirs, contact, f
    <3> QED  BY <3>1, <3>2, FS_Surjection
  <2>5. s \in listed /\ result[s].contact = Max(contact(s) \cup {None})
    BY <2>1, <2>2
  <2> HIDE DEF contact
  <2>6. Max(contact(s) \cup {None}) >= m.at
    <3>1. IsFiniteSet(contact(s) \cup {None})
      BY <2>4, FS_AddElement
    <3>2. contact(s) \cup {None} \in SUBSET Nat
      BY <2>3 DEF None
    <3> QED  BY <2>2, <3>1, <3>2, MaxIsThere
  <2> QED  BY <2>5, <2>6
<1> HIDE DEF result
<1>5. /\ req'.kind = req.kind /\ req'.root = req.root /\ req'.left = req.left /\ req'.text = req.text
      /\ req'.records = req.records /\ req'.top = req.top /\ req'.unread = req.unread /\ req'.opened = req.opened
      /\ req'.values = req.values /\ req'.merged = req.merged /\ req'.pc = "done" /\ req'.warned = req.warned
      /\ req'.live = req.live /\ req'.result = result
  BY <1>1 DEF To, Types, IsRequest
<1>6. /\ walk'.existed = walk.existed /\ walk'.shown = walk.shown
      /\ walk'.current = walk.current /\ walk'.clean = ~req.warned
  BY <1>1 DEF Types
<1>7. Types'
  <2> DEFINE q == To("done", req)
  <2>1. IsRequest(q)
    BY GoingOn DEF Types, Places
  <2>2. IsRequest([q EXCEPT !.result = result])
    <3> HIDE DEF q
    <3> QED  BY <2>1 DEF IsRequest
  <2>3. req.warned \in BOOLEAN
    BY DEF Types, IsRequest
  <2> QED  BY <1>1, <1>6, <2>2, <2>3 DEF Types
<1>8. LedgersAreRight' /\ RecordsAreRight' /\ NothingIsMissed' /\ WalkIsRight'
  BY <1>1, <1>2, <1>5, <1>6, BesideTheScan
<1>9. CatalogIsRight'
  BY <1>1, <1>2, <1>5, <1>6 DEF CatalogIsRight
<1>10. CatalogIsComplete'
  <2>1. walk'.clean => \A m \in walk.existed : Remains(m) => m \in req.records
    BY <1>1, <1>2, <1>6 DEF NothingIsMissed
  <2> QED  BY <1>1, <1>4, <1>5, <1>6, <2>1 DEF CatalogIsComplete, Remains
<1> QED  BY <1>7, <1>8, <1>9, <1>10

------------------------------------------------------------------------------
(***************************************************************************)
(* The theorems.                                                           *)
(***************************************************************************)
LEMMA HistoryInit ==
  ASSUME Init
  PROVE  HistoryInv
<1>1. PICK k \in {"pages", "catalog"} : req = [Idle EXCEPT !.kind = k]
  BY DEF Init
<1>2. /\ req.kind = k /\ req.pc = "ask" /\ req.root = 0 /\ req.left = {} /\ req.file = "none" /\ req.text = {}
      /\ req.records = {} /\ ~req.warned /\ req.cursor = <<>> /\ req.top = 0 /\ req.unread = Projects
      /\ req.opened = [p \in Projects |-> None] /\ req.values = {} /\ req.merged = {}
  BY <1>1 DEF Idle
<1>3. IsRequest(req)
  <2>1. Idle.values = {} /\ Idle.merged = {} /\ Idle.result = <<>>
    BY DEF Idle
  <2>2. [p \in Projects |-> None] \in [Projects -> Nat]
    BY DEF None
  <2>3. IsRequest(Idle)
    BY <2>1, <2>2 DEF Idle, IsRequest, Places, None
  <2> HIDE DEF Idle
  <2> QED  BY <1>1, <2>3 DEF IsRequest
<1>4. Types
  BY <1>3 DEF Init, Types, None
<1>5. LedgersAreRight
  BY FS_EmptySet DEF Init, LedgersAreRight
<1>6. RecordsAreRight
  BY <1>2, FS_EmptySet DEF Init, RecordsAreRight
<1>7. NothingIsMissed
  BY <1>2 DEF Init, NothingIsMissed
<1>8. WalkIsRight
  BY <1>2 DEF Init, WalkIsRight
<1>9. CatalogIsRight
  BY <1>2 DEF Init, CatalogIsRight, None
<1>10. CatalogIsComplete
  BY <1>2 DEF CatalogIsComplete, At
<1> QED  BY <1>4, <1>5, <1>6, <1>7, <1>8, <1>9, <1>10 DEF HistoryInv

LEMMA HistoryStep ==
  ASSUME HistoryInv, [Next]_vars
  PROVE  HistoryInv'
<1>1. CASE UNCHANGED vars
  BY <1>1 DEF vars, HistoryInv, Types, IsRequest, LedgersAreRight, RecordsAreRight, NothingIsMissed, WalkIsRight, Older,
              CatalogIsRight, CatalogIsComplete, At, Scanned, Belongs, Remains
<1>2. CASE \E l \in Ledgers : Send(l) \/ Rewrite(l)
  BY <1>2, SendStep, RewriteStep
<1>3. CASE ReplaceRoot \/ MakeRoot \/ ReplaceProject \/ ReplaceTree
  BY <1>3, ReplaceStep
<1>4. CASE Begin \/ List \/ Stat \/ Read \/ Check \/ EndScan
  BY <1>4, BeginStep, ListStep, StatStep, ReadStep, CheckStep, EndScanStep
<1>5. CASE AskPage \/ Page
  BY <1>5, AskPageStep, PageStep
<1>6. CASE AskCatalog \/ (\E p \in Projects : OpenProject(p)) \/ LeaveProjects \/ ReadProject \/ Discover
  BY <1>6, AskCatalogStep, OpenProjectStep, LeaveProjectsStep, ReadProjectStep, DiscoverStep
<1>7. CASE CheckTree \/ (\E p \in Projects : Merge(p)) \/ CheckTreeAgain \/ Join
  BY <1>7, CheckTreeStep, MergeStep, CheckTreeAgainStep, JoinStep
<1> QED  BY <1>1, <1>2, <1>3, <1>4, <1>5, <1>6, <1>7 DEF Next, Answer

\* The inductive invariant of the requests: what they have read, have still to
\* read and have shown, together, is all that existed when they were asked and
\* still exists, if nothing was warned of.
THEOREM HistoryInvariant == Spec => []HistoryInv
BY HistoryInit, HistoryStep, PTL DEF Spec

\* No answer has records of two state directories, whichever is in place when a
\* ledger is read (assertDirectory, rootChanged).
THEOREM OneDirectory == Spec => []OneRoot
<1>1. HistoryInv => OneRoot
  BY DEF HistoryInv, RecordsAreRight, OneRoot
<1> QED  BY <1>1, HistoryInvariant, PTL

\* Page after page, and whatever comes in between two of them, a walk goes from
\* newer to older messages of the pair; without a warning it has shown all that
\* existed when it began and still exists (getBridgeConversation).
THEOREM WalksAreExact == Spec => []WalkIsExact
<1>1. HistoryInv => WalkIsExact
  <2> SUFFICES ASSUME HistoryInv PROVE WalkIsExact
    OBVIOUS
  <2>1. DOMAIN walk.shown = 1..Len(walk.shown)
    BY DEF HistoryInv, Types
  <2>2. ASSUME req.kind = "pages", At("done"), walk.clean, NEW m \in walk.existed, m \in Between(Selected)
        PROVE  m \in Range(walk.shown)
    <3>1. Remains(m)
      BY <2>2, SessionsAssumption DEF Between, Ledgers, HistoryInv, LedgersAreRight, Remains
    <3>2. PICK i \in 1..Len(walk.shown) : m = walk.shown[i]
      BY <2>2, <3>1 DEF HistoryInv, WalkIsRight, At
    <3> QED  BY <2>1, <3>2 DEF Range
  <2> QED  BY <2>1, <2>2 DEF WalkIsExact, HistoryInv, WalkIsRight
<1> QED  BY <1>1, HistoryInvariant, PTL

\* The catalog is joined from directories that were in place when the scan was
\* over, and without a warning it lacks no session with a message that existed when
\* it was asked and still does, and dates no contact too early
\* (listClaudeConversations).
THEOREM CatalogsAreTrue == Spec => []CatalogIsTrue
<1>1. HistoryInv => CatalogIsTrue
  <2> SUFFICES ASSUME HistoryInv PROVE CatalogIsTrue
    OBVIOUS
  <2>1. ASSUME req.kind = "catalog", At("done"), walk.clean,
               NEW s \in Sessions, NEW m \in walk.existed, m \in Between(s)
        PROVE  s \in DOMAIN req.result /\ req.result[s].contact >= m.at
    <3>1. Remains(m) /\ m.route = s
      BY <2>1 DEF Between, Ledgers, HistoryInv, LedgersAreRight, Remains
    <3> QED  BY <2>1, <3>1 DEF HistoryInv, CatalogIsComplete
  <2> QED  BY <2>1 DEF HistoryInv, CatalogIsRight, CatalogIsTrue
<1> QED  BY <1>1, HistoryInvariant, PTL
==============================================================================
