------------------------ MODULE DatasetCatalogProofs ------------------------
(***************************************************************************)
(* What holds of DatasetCatalog for any number of calls and parts.         *)
(***************************************************************************)
EXTENDS DatasetCatalog, SequenceTheorems, TLAPS

\* The parts some registered version names.
Registered == UNION {PartsOf(versions[v].files) : v \in DOMAIN versions}

\* A call still to publish its part.
Unpublished(c) == call[c].pc \in {"stage", "number", "insert"}

\* The next number a caller may try is at most one above the newest.
NumberBound ==
    \A c \in Calls : call[c].pc = "insert" => call[c].number \in 1..(Latest + 1)

\* A call is based on a version that exists.
BaseKnown ==
    \A c \in Calls : call[c].pc # "idle" => call[c].base \in 0..Latest

\* No two calls share a key, and no version names a key not yet published.
KeysOwned ==
    /\ \A c \in Calls : Unpublished(c) => call[c].key \notin Registered
    /\ \A c, d \in Calls :
          /\ c # d
          /\ call[c].pc # "idle"
          /\ call[d].pc # "idle"
          => call[c].key # call[d].key

CatalogInv ==
    TypeOK /\ Latest \in Nat /\ Contiguous /\ NumberBound /\ BaseKnown /\ KeysOwned

-----------------------------------------------------------------------------
\* The newest version is the last of 1..n.
LEMMA LatestOf == ASSUME NEW n \in Nat, DOMAIN versions = 1..n PROVE Latest = n
<1>1. CASE n = 0
  BY <1>1 DEF Latest
<1>2. CASE n # 0
  <2>1. n \in DOMAIN versions /\ \A u \in DOMAIN versions : u <= n
    BY <1>2
  <2>2. \A v \in DOMAIN versions : (\A u \in DOMAIN versions : u <= v) => v = n
    BY <2>1
  <2> QED BY <2>1, <2>2, <1>2 DEF Latest
<1> QED BY <1>1, <1>2

\* The same of the next state.
LEMMA LatestOfNext == ASSUME NEW n \in Nat, (DOMAIN versions)' = 1..n PROVE Latest' = n
<1>1. CASE n = 0
  BY <1>1 DEF Latest
<1>2. CASE n # 0
  <2>1. n \in (DOMAIN versions)' /\ \A u \in (DOMAIN versions)' : u <= n
    BY <1>2
  <2>2. \A v \in (DOMAIN versions)' : (\A u \in (DOMAIN versions)' : u <= v) => v = n
    BY <2>1
  <2> QED BY <2>1, <2>2, <1>2 DEF Latest
<1> QED BY <1>1, <1>2

-----------------------------------------------------------------------------
(* The invariant is inductive: one lemma for each of its parts. *)

\* Steps that register nothing leave the numbers and the registered keys alone.
LEMMA Quiet ==
    ASSUME UNCHANGED versions
    PROVE  Latest' = Latest /\ (DOMAIN versions)' = DOMAIN versions /\ Registered' = Registered
BY DEF Latest, Registered, PartsOf

\* A registered manifest is what the call inherited and its own key.
LEMMA ManifestParts ==
    ASSUME TypeOK, Latest \in Nat, Contiguous, BaseKnown, NEW c \in Calls, call[c].pc = "insert"
    PROVE  /\ Manifest(call[c]) \in Seq(Parts)
           /\ PartsOf(Manifest(call[c])) \subseteq Registered \cup {call[c].key}
           /\ PartsOf(Manifest(call[c])) \subseteq allocated
<1> DEFINE f == call[c]
           m == ManifestAt(f.base)
<1>1. f \in Frames /\ f.key \in Parts /\ f.key \in allocated
  BY DEF TypeOK, Idle, Frames
<1>2. m \in Seq(Parts) /\ PartsOf(m) \subseteq Registered /\ PartsOf(m) \subseteq allocated
  <2>1. CASE f.base = 0
    BY <2>1 DEF ManifestAt, PartsOf
  <2>2. CASE f.base # 0
    <3>1. f.base \in DOMAIN versions
      BY <2>2 DEF BaseKnown, Contiguous
    <3> QED BY <2>2, <3>1 DEF ManifestAt, Registered, TypeOK, Rows
  <2> QED BY <2>1, <2>2
<1>3. CASE Inherits(f.kind)
  <2>1. Manifest(f) = Append(m, f.key)
    BY <1>3 DEF Manifest
  <2>2. PartsOf(Append(m, f.key)) = PartsOf(m) \cup {f.key}
    BY <1>1, <1>2 DEF PartsOf
  <2> HIDE DEF m
  <2> QED BY <1>1, <1>2, <2>1, <2>2
<1>4. CASE ~Inherits(f.kind)
  <2>1. Manifest(f) = <<f.key>> /\ PartsOf(<<f.key>>) = {f.key}
    BY <1>4 DEF Manifest, PartsOf
  <2> QED BY <1>1, <2>1
<1> QED BY <1>3, <1>4

\* Inserting the row of a number that is free adds exactly the next number.
LEMMA InsertIsNext ==
    ASSUME CatalogInv, NEW c \in Calls, Insert(c)
    PROVE  /\ call[c].number = Latest + 1
           /\ (DOMAIN versions)' = 1..(Latest + 1)
           /\ Latest' = Latest + 1
           /\ Registered' = Registered \cup PartsOf(Manifest(call[c]))
<1> USE DEF CatalogInv
<1>1. call[c].number = Latest + 1
  BY DEF Insert, Contiguous, NumberBound
<1>2. (DOMAIN versions)' = 1..(Latest + 1)
  BY <1>1 DEF Insert, Contiguous
<1>3. Latest' = Latest + 1
  BY <1>2, LatestOfNext
<1>4. /\ \A v \in DOMAIN versions : versions'[v] = versions[v]
      /\ versions'[Latest + 1].files = Manifest(call[c])
      /\ (DOMAIN versions)' = DOMAIN versions \cup {Latest + 1}
  BY <1>1 DEF Insert
<1>5. Registered' = Registered \cup PartsOf(Manifest(call[c]))
  BY <1>1, <1>4 DEF Registered, PartsOf
<1> QED BY <1>1, <1>2, <1>3, <1>5

\* Giving one call a legal local state keeps all of them legal.
LEMMA CallType ==
    ASSUME TypeOK, NEW c \in Calls, NEW f \in Frames \cup {Idle},
           call' = [call EXCEPT ![c] = f], allocated \subseteq allocated',
           f.pc # "idle" => f.key \in allocated' /\ f.doomed \subseteq allocated'
    PROVE  /\ call' \in [Calls -> Frames \cup {Idle}]
           /\ \A d \in Calls : call'[d].pc # "idle" =>
                 call'[d].key \in allocated' /\ call'[d].doomed \subseteq allocated'
BY DEF TypeOK

\* What the type invariant says of a call that is not idle.
LEMMA ActiveFrame ==
    ASSUME TypeOK, NEW c \in Calls, call[c].pc # "idle"
    PROVE  /\ call[c] \in Frames
           /\ call[c].key \in allocated
           /\ call[c].doomed \subseteq allocated
BY DEF TypeOK, Idle, Frames

\* A caller that is doing nothing has no frame.
LEMMA IdleType == Idle.pc = "idle" /\ Idle \notin Frames
BY DEF Idle, Frames

\* A frame that takes a number is a frame with a number.
LEMMA TwoFields ==
    ASSUME NEW f \in Frames, NEW n \in Nat
    PROVE  LET g == [f EXCEPT !.pc = "insert", !.number = n]
           IN  g \in Frames /\ g.pc = "insert" /\ g.number = n /\ g.kind = f.kind
               /\ g.key = f.key /\ g.base = f.base /\ g.doomed = f.doomed
<1> DEFINE h == [f EXCEPT !.pc = "insert"]
           g == [h EXCEPT !.number = n]
<1>1. h \in Frames /\ h.pc = "insert" /\ h.kind = f.kind
      /\ h.key = f.key /\ h.base = f.base /\ h.doomed = f.doomed
  BY DEF Frames
<1> HIDE DEF h
<1>2. g \in Frames /\ g.pc = h.pc /\ g.number = n /\ g.kind = h.kind
      /\ g.key = h.key /\ g.base = h.base /\ g.doomed = h.doomed
  BY <1>1 DEF Frames
<1> QED BY <1>1, <1>2, Zenon DEF h

\* An append about to compact is still a frame.
LEMMA CompactingFrame ==
    ASSUME NEW f \in Frames
    PROVE  LET g == [f EXCEPT !.pc = "compact",
                              !.doomed = IF f.kind = "append" THEN {f.key} ELSE {}]
           IN  g \in Frames /\ g.pc = "compact" /\ g.kind = f.kind /\ g.key = f.key
               /\ g.base = f.base /\ g.doomed \subseteq {f.key}
<1> DEFINE h == [f EXCEPT !.pc = "compact"]
           g == [h EXCEPT !.doomed = IF f.kind = "append" THEN {f.key} ELSE {}]
<1>1. h \in Frames /\ h.pc = "compact" /\ h.kind = f.kind
      /\ h.key = f.key /\ h.base = f.base
  BY DEF Frames
<1> HIDE DEF h
<1>2. g \in Frames /\ g.pc = h.pc /\ g.kind = h.kind
      /\ g.key = h.key /\ g.base = h.base /\ g.doomed \subseteq {f.key}
  BY <1>1 DEF Frames
<1> QED BY <1>1, <1>2, Zenon DEF h

\* Every step keeps the types.
LEMMA TypeStep == ASSUME CatalogInv, [CatalogNext]_vars PROVE TypeOK'
<1> USE DEF CatalogInv
<1>1. CASE UNCHANGED vars
  BY <1>1 DEF TypeOK, vars, PartsOf
<1>2. ASSUME NEW c \in Calls, NEW kind \in Kinds, Begin(c, kind) PROVE TypeOK'
  <2>1. PICK k \in Parts \ allocated :
           /\ allocated' = allocated \cup {k}
           /\ call' = [call EXCEPT ![c] = Frame(kind, k, {})]
    BY <1>2 DEF Begin
  <2>2. Frame(kind, k, {}) \in Frames /\ Frame(kind, k, {}).key = k /\ Frame(kind, k, {}).doomed = {}
    BY KindsAssumption DEF Frame, Frames, BaseOf
  <2>3. /\ call' \in [Calls -> Frames \cup {Idle}]
        /\ \A d \in Calls : call'[d].pc # "idle" =>
              call'[d].key \in allocated' /\ call'[d].doomed \subseteq allocated'
    BY <2>1, <2>2, CallType
  <2> QED BY <1>2, <2>1, <2>3 DEF Begin, TypeOK, PartsOf
<1>3. ASSUME NEW c \in Calls, Stage(c) PROVE TypeOK'
  <2> DEFINE g == [call[c] EXCEPT !.pc = "number"]
  <2>1. call[c] \in Frames /\ call[c].key \in allocated /\ call[c].doomed \subseteq allocated
    BY <1>3, ActiveFrame DEF Stage
  <2>2. g \in Frames /\ g.key = call[c].key /\ g.doomed = call[c].doomed
    BY <2>1 DEF Frames
  <2>3. call' = [call EXCEPT ![c] = g] /\ allocated' = allocated
    BY <1>3 DEF Stage
  <2> HIDE DEF g
  <2>4. /\ call' \in [Calls -> Frames \cup {Idle}]
        /\ \A d \in Calls : call'[d].pc # "idle" =>
              call'[d].key \in allocated' /\ call'[d].doomed \subseteq allocated'
    BY <2>1, <2>2, <2>3, CallType
  <2>5. StagedRows(call[c]) \subseteq Parts
    <3>1. ManifestAt(call[c].base) \in Seq(Parts)
      <4>1. call[c].base \in {0} \cup DOMAIN versions
        BY <1>3 DEF BaseKnown, Contiguous, Stage
      <4> QED BY <4>1 DEF ManifestAt, TypeOK, Rows
    <3>2. RowsOf(ManifestAt(call[c].base)) \subseteq Parts
      BY <3>1 DEF RowsOf, PartsOf, TypeOK
    <3> QED BY <2>1, <3>2 DEF StagedRows, Frames
  <2>6. content' \in [Parts -> SUBSET Parts]
    BY <1>3, <2>5 DEF Stage, TypeOK
  <2>7. stored' \subseteq allocated'
    BY <1>3, <2>1 DEF Stage, TypeOK
  <2> QED BY <1>3, <2>4, <2>6, <2>7 DEF Stage, TypeOK, PartsOf
<1>4. ASSUME NEW c \in Calls, EmptyDelta(c) \/ Crash(c) PROVE TypeOK'
  <2>1. call' = [call EXCEPT ![c] = Idle] /\ UNCHANGED <<versions, stored, content, allocated>>
    BY <1>4 DEF EmptyDelta, Crash
  <2> QED BY <2>1, CallType, IdleType DEF TypeOK, PartsOf
<1>5. ASSUME NEW c \in Calls, Raise(c) PROVE TypeOK'
  <2>1. call' = [call EXCEPT ![c] = Idle] /\ UNCHANGED <<versions, content, allocated>>
        /\ stored' \subseteq stored
    BY <1>5 DEF Raise
  <2> QED BY <2>1, CallType, IdleType DEF TypeOK, PartsOf
<1>6. ASSUME NEW c \in Calls, TakeNumber(c) PROVE TypeOK'
  <2> DEFINE g == [call[c] EXCEPT !.pc = "insert", !.number = Latest + 1]
  <2>1. call[c] \in Frames /\ call[c].key \in allocated /\ call[c].doomed \subseteq allocated
    BY <1>6, ActiveFrame DEF TakeNumber
  <2>2. g \in Frames /\ g.key = call[c].key /\ g.doomed = call[c].doomed
    <3>1. Latest + 1 \in Nat
      OBVIOUS
    <3> QED BY <2>1, <3>1, TwoFields, Zenon
  <2>3. call' = [call EXCEPT ![c] = g] /\ UNCHANGED <<versions, stored, content, allocated>>
    BY <1>6 DEF TakeNumber
  <2> HIDE DEF g
  <2>4. /\ call' \in [Calls -> Frames \cup {Idle}]
        /\ \A d \in Calls : call'[d].pc # "idle" =>
              call'[d].key \in allocated' /\ call'[d].doomed \subseteq allocated'
    BY <2>1, <2>2, <2>3, CallType
  <2> QED BY <2>3, <2>4 DEF TypeOK, PartsOf
<1>7. ASSUME NEW c \in Calls, InsertDuplicate(c) PROVE TypeOK'
  <2> DEFINE g == [call[c] EXCEPT !.number = NextNumber(call[c])]
  <2>1. call[c] \in Frames /\ call[c].key \in allocated /\ call[c].doomed \subseteq allocated
    BY <1>7, ActiveFrame DEF InsertDuplicate
  <2>2. g \in Frames /\ g.key = call[c].key /\ g.doomed = call[c].doomed
    BY <2>1 DEF Frames, NextNumber
  <2>3. call' = [call EXCEPT ![c] = g] /\ UNCHANGED <<versions, stored, content, allocated>>
    BY <1>7 DEF InsertDuplicate
  <2> HIDE DEF g
  <2>4. /\ call' \in [Calls -> Frames \cup {Idle}]
        /\ \A d \in Calls : call'[d].pc # "idle" =>
              call'[d].key \in allocated' /\ call'[d].doomed \subseteq allocated'
    BY <2>1, <2>2, <2>3, CallType
  <2> QED BY <2>3, <2>4 DEF TypeOK, PartsOf
<1>8. ASSUME NEW c \in Calls, Insert(c) PROVE TypeOK'
  <2> DEFINE g == [[call[c] EXCEPT !.pc = "compact"] EXCEPT
                     !.doomed = IF call[c].kind = "append" THEN {call[c].key} ELSE {}]
  <2>1. call[c] \in Frames /\ call[c].key \in allocated /\ call[c].doomed \subseteq allocated
    BY <1>8, ActiveFrame DEF Insert
  <2>2. g \in Frames /\ g.key = call[c].key /\ g.doomed \subseteq {call[c].key}
    BY <2>1, CompactingFrame
  <2>3. call' = [call EXCEPT ![c] = IF CompactsNext(call[c]) THEN g ELSE Idle]
        /\ UNCHANGED <<stored, content, allocated>>
    BY <1>8 DEF Insert
  <2> HIDE DEF g
  <2>4. /\ call' \in [Calls -> Frames \cup {Idle}]
        /\ \A d \in Calls : call'[d].pc # "idle" =>
              call'[d].key \in allocated' /\ call'[d].doomed \subseteq allocated'
    BY <2>1, <2>2, <2>3, CallType, IdleType
  <2>5. Manifest(call[c]) \in Seq(Parts) /\ PartsOf(Manifest(call[c])) \subseteq allocated
    BY <1>8, ManifestParts DEF Insert
  <2>6. \A v \in (DOMAIN versions)' :
           \/ v \in DOMAIN versions /\ versions'[v] = versions[v]
           \/ versions'[v] = [files |-> Manifest(call[c]), source |-> call[c].kind, base |-> call[c].base]
    BY <1>8 DEF Insert
  <2>7. (DOMAIN versions)' \subseteq Nat \ {0}
    BY <1>8, InsertIsNext
  <2>8. \A v \in (DOMAIN versions)' :
           versions'[v] \in Rows /\ PartsOf(versions'[v].files) \subseteq allocated
    BY <2>1, <2>5, <2>6 DEF TypeOK, Rows, Frames
  <2> QED BY <2>3, <2>4, <2>7, <2>8 DEF TypeOK, PartsOf
<1>9. ASSUME NEW c \in Calls, BeginNested(c) PROVE TypeOK'
  <2>1. PICK k \in Parts \ allocated :
           /\ allocated' = allocated \cup {k}
           /\ call' = [call EXCEPT ![c] = Frame("compact", k, call[c].doomed)]
    BY <1>9 DEF BeginNested
  <2> DEFINE g == Frame("compact", k, call[c].doomed)
  <2>2. call[c] \in Frames /\ call[c].doomed \subseteq allocated
    BY <1>9, ActiveFrame DEF BeginNested
  <2>3. g \in Frames /\ g.key = k /\ g.doomed = call[c].doomed /\ call' = [call EXCEPT ![c] = g]
    BY <2>1, <2>2 DEF Frame, Frames, BaseOf, AllKinds
  <2> HIDE DEF g
  <2>4. /\ call' \in [Calls -> Frames \cup {Idle}]
        /\ \A d \in Calls : call'[d].pc # "idle" =>
              call'[d].key \in allocated' /\ call'[d].doomed \subseteq allocated'
    BY <2>1, <2>2, <2>3, CallType
  <2> QED BY <1>9, <2>1, <2>4 DEF BeginNested, TypeOK, PartsOf
<1> QED
  BY <1>1, <1>2, <1>3, <1>4, <1>5, <1>6, <1>7, <1>8, <1>9
  DEF CatalogNext, Progress, StaleBase, MissingBase, Fail

\* Every step keeps the version numbers gap-free, what callers believe of them
\* included.
LEMMA NumberStep ==
    ASSUME CatalogInv, [CatalogNext]_vars
    PROVE  Latest' \in Nat /\ Contiguous' /\ NumberBound' /\ BaseKnown'
<1> DEFINE Goal == Latest' \in Nat /\ Contiguous' /\ NumberBound' /\ BaseKnown'
<1> USE DEF CatalogInv
<1>1. CASE UNCHANGED vars
  BY <1>1, Quiet DEF vars, Contiguous, NumberBound, BaseKnown
<1>2. ASSUME NEW c \in Calls, NEW g \in Frames \cup {Idle}, UNCHANGED versions,
             call' = [call EXCEPT ![c] = g],
             g.pc = "insert" => g.number \in 1..(Latest + 1),
             g.pc # "idle" => g.base \in 0..Latest
      PROVE  Goal
  <2>1. Latest' = Latest /\ (DOMAIN versions)' = DOMAIN versions
    BY <1>2, Quiet
  <2>2. \A d \in Calls : call'[d] = IF d = c THEN g ELSE call[d]
    BY <1>2 DEF TypeOK
  <2> QED BY <1>2, <2>1, <2>2 DEF Contiguous, NumberBound, BaseKnown
<1>3. ASSUME NEW c \in Calls, NEW kind \in Kinds, Begin(c, kind) PROVE Goal
  <2>1. PICK k \in Parts \ allocated : call' = [call EXCEPT ![c] = Frame(kind, k, {})]
    BY <1>3 DEF Begin
  <2> DEFINE g == Frame(kind, k, {})
  <2>2. g \in Frames /\ g.pc = "stage" /\ g.base \in 0..Latest /\ call' = [call EXCEPT ![c] = g]
    BY <2>1, KindsAssumption DEF Frame, Frames, BaseOf
  <2> HIDE DEF g
  <2> QED BY <1>2, <1>3, <2>2 DEF Begin
<1>4. ASSUME NEW c \in Calls, Stage(c) PROVE Goal
  <2> DEFINE g == [call[c] EXCEPT !.pc = "number"]
  <2>1. call[c] \in Frames /\ call[c].base \in 0..Latest
    BY <1>4, ActiveFrame DEF Stage, BaseKnown
  <2>2. g \in Frames /\ g.pc = "number" /\ g.base \in 0..Latest
    BY <2>1 DEF Frames
  <2>3. call' = [call EXCEPT ![c] = g] /\ UNCHANGED versions
    BY <1>4 DEF Stage
  <2> HIDE DEF g
  <2> QED BY <1>2, <2>2, <2>3
<1>5. ASSUME NEW c \in Calls, EmptyDelta(c) \/ Crash(c) \/ Raise(c) PROVE Goal
  <2>1. call' = [call EXCEPT ![c] = Idle] /\ UNCHANGED versions
    BY <1>5 DEF EmptyDelta, Crash, Raise
  <2> QED BY <1>2, <2>1, IdleType
<1>6. ASSUME NEW c \in Calls, TakeNumber(c) PROVE Goal
  <2> DEFINE g == [call[c] EXCEPT !.pc = "insert", !.number = Latest + 1]
  <2>1. call[c] \in Frames /\ call[c].base \in 0..Latest /\ Latest + 1 \in Nat
    BY <1>6, ActiveFrame DEF TakeNumber, BaseKnown
  <2>2. g \in Frames /\ g.number = Latest + 1 /\ g.base = call[c].base
    BY <2>1, TwoFields, Zenon
  <2>3. call' = [call EXCEPT ![c] = g] /\ UNCHANGED versions
    BY <1>6 DEF TakeNumber
  <2> HIDE DEF g
  <2>4. g.number \in 1..(Latest + 1) /\ g.base \in 0..Latest
    BY <2>1, <2>2
  <2> QED BY <1>2, <2>2, <2>3, <2>4
<1>7. ASSUME NEW c \in Calls, InsertDuplicate(c) PROVE Goal
  <2> DEFINE g == [call[c] EXCEPT !.number = NextNumber(call[c])]
  <2>1. call[c] \in Frames /\ call[c].base \in 0..Latest /\ call[c].number \in 1..Latest
    BY <1>7, ActiveFrame DEF InsertDuplicate, BaseKnown, Contiguous
  <2>2. g \in Frames /\ g.number \in 1..(Latest + 1) /\ g.base = call[c].base
    BY <2>1 DEF Frames, NextNumber
  <2>3. call' = [call EXCEPT ![c] = g] /\ UNCHANGED versions
    BY <1>7 DEF InsertDuplicate
  <2> HIDE DEF g
  <2> QED BY <1>2, <2>1, <2>2, <2>3
<1>8. ASSUME NEW c \in Calls, Insert(c) PROVE Goal
  <2> DEFINE g == [[call[c] EXCEPT !.pc = "compact"] EXCEPT
                     !.doomed = IF call[c].kind = "append" THEN {call[c].key} ELSE {}]
  <2>1. call[c] \in Frames /\ call[c].base \in 0..Latest
    BY <1>8, ActiveFrame DEF Insert, BaseKnown
  <2>2. g.pc = "compact" /\ g.base = call[c].base
    BY <2>1, CompactingFrame
  <2>3. call' = [call EXCEPT ![c] = IF CompactsNext(call[c]) THEN g ELSE Idle]
    BY <1>8 DEF Insert
  <2> HIDE DEF g
  <2>4. \A d \in Calls : call'[d] = IF d # c THEN call[d]
                                    ELSE IF CompactsNext(call[c]) THEN g ELSE Idle
    BY <2>3 DEF TypeOK
  <2>5. Latest' = Latest + 1 /\ (DOMAIN versions)' = 1..(Latest + 1)
    BY <1>8, InsertIsNext
  <2>6. NumberBound'
    <3> SUFFICES ASSUME NEW d \in Calls, call'[d].pc = "insert"
                 PROVE  call'[d].number \in 1..(Latest' + 1)
      BY DEF NumberBound
    <3>1. d # c /\ call'[d] = call[d]
      BY <2>2, <2>4, IdleType
    <3> QED BY <2>5, <3>1 DEF NumberBound
  <2>7. BaseKnown'
    <3> SUFFICES ASSUME NEW d \in Calls, call'[d].pc # "idle"
                 PROVE  call'[d].base \in 0..Latest'
      BY DEF BaseKnown
    <3> QED BY <2>1, <2>2, <2>4, <2>5, IdleType DEF BaseKnown
  <2> QED BY <2>5, <2>6, <2>7 DEF Contiguous
<1>9. ASSUME NEW c \in Calls, BeginNested(c) PROVE Goal
  <2>1. PICK k \in Parts \ allocated : call' = [call EXCEPT ![c] = Frame("compact", k, call[c].doomed)]
    BY <1>9 DEF BeginNested
  <2> DEFINE g == Frame("compact", k, call[c].doomed)
  <2>2. call[c] \in Frames
    BY <1>9, ActiveFrame DEF BeginNested
  <2>3. g \in Frames /\ g.pc = "stage" /\ g.base \in 0..Latest /\ call' = [call EXCEPT ![c] = g]
    BY <2>1, <2>2 DEF Frame, Frames, BaseOf, AllKinds
  <2> HIDE DEF g
  <2> QED BY <1>2, <1>9, <2>3 DEF BeginNested
<1> QED
  BY <1>1, <1>3, <1>4, <1>5, <1>6, <1>7, <1>8, <1>9
  DEF CatalogNext, Progress, StaleBase, MissingBase, Fail

\* Every step keeps the keys apart.
LEMMA KeyStep == ASSUME CatalogInv, [CatalogNext]_vars PROVE KeysOwned'
<1> USE DEF CatalogInv
<1>1. CASE UNCHANGED vars
  BY <1>1, Quiet DEF vars, KeysOwned, Unpublished
<1>2. ASSUME NEW c \in Calls, NEW g \in Frames \cup {Idle}, UNCHANGED versions,
             call' = [call EXCEPT ![c] = g],
             \/ g = Idle
             \/ g.key \notin allocated
             \/ call[c].pc # "idle" /\ g.key = call[c].key /\ Unpublished(c)
      PROVE  KeysOwned'
  <2>1. Registered' = Registered
    BY <1>2, Quiet
  <2>2. \A d \in Calls : call'[d] = IF d = c THEN g ELSE call[d]
    BY <1>2 DEF TypeOK
  <2>3. Registered \subseteq allocated
    BY DEF TypeOK, Registered
  <2>4. \A d \in Calls : call[d].pc # "idle" => call[d].key \in allocated
    BY DEF TypeOK
  <2>5. \A d \in Calls : Unpublished(d)' => call'[d].key \notin Registered
    BY <1>2, <2>2, <2>3, IdleType DEF Unpublished, KeysOwned
  <2>6. \A d \in Calls : d # c /\ call[d].pc # "idle" /\ g.pc # "idle" => call[d].key # g.key
    BY <1>2, <2>4, IdleType DEF KeysOwned
  <2> QED BY <2>1, <2>2, <2>5, <2>6 DEF KeysOwned
<1>3. ASSUME NEW c \in Calls, NEW kind \in Kinds, Begin(c, kind) PROVE KeysOwned'
  <2>1. PICK k \in Parts \ allocated : call' = [call EXCEPT ![c] = Frame(kind, k, {})]
    BY <1>3 DEF Begin
  <2> DEFINE g == Frame(kind, k, {})
  <2>2. g \in Frames /\ g.key \notin allocated /\ call' = [call EXCEPT ![c] = g]
    BY <2>1, KindsAssumption DEF Frame, Frames, BaseOf
  <2>3. UNCHANGED versions
    BY <1>3 DEF Begin
  <2> HIDE DEF g
  <2> QED BY <1>2, <2>2, <2>3
<1>4. ASSUME NEW c \in Calls, Stage(c) PROVE KeysOwned'
  <2> DEFINE g == [call[c] EXCEPT !.pc = "number"]
  <2>1. call[c] \in Frames /\ Unpublished(c) /\ call[c].pc # "idle"
    BY <1>4, ActiveFrame DEF Stage, Unpublished
  <2>2. g \in Frames /\ g.key = call[c].key
    BY <2>1 DEF Frames
  <2>3. call' = [call EXCEPT ![c] = g] /\ UNCHANGED versions
    BY <1>4 DEF Stage
  <2> HIDE DEF g
  <2> QED BY <1>2, <2>1, <2>2, <2>3
<1>5. ASSUME NEW c \in Calls, EmptyDelta(c) \/ Crash(c) \/ Raise(c) PROVE KeysOwned'
  <2>1. call' = [call EXCEPT ![c] = Idle] /\ UNCHANGED versions
    BY <1>5 DEF EmptyDelta, Crash, Raise
  <2>2. Idle \in Frames \cup {Idle}
    OBVIOUS
  <2> QED BY <1>2, <2>1, <2>2
<1>6. ASSUME NEW c \in Calls, TakeNumber(c) PROVE KeysOwned'
  <2> DEFINE g == [call[c] EXCEPT !.pc = "insert", !.number = Latest + 1]
  <2>1. call[c] \in Frames /\ Unpublished(c) /\ call[c].pc # "idle" /\ Latest + 1 \in Nat
    BY <1>6, ActiveFrame DEF TakeNumber, Unpublished
  <2>2. g \in Frames /\ g.key = call[c].key
    BY <2>1, TwoFields, Zenon
  <2>3. call' = [call EXCEPT ![c] = g] /\ UNCHANGED versions
    BY <1>6 DEF TakeNumber
  <2> HIDE DEF g
  <2> QED BY <1>2, <2>1, <2>2, <2>3
<1>7. ASSUME NEW c \in Calls, InsertDuplicate(c) PROVE KeysOwned'
  <2> DEFINE g == [call[c] EXCEPT !.number = NextNumber(call[c])]
  <2>1. call[c] \in Frames /\ Unpublished(c) /\ call[c].pc # "idle"
    BY <1>7, ActiveFrame DEF InsertDuplicate, Unpublished
  <2>2. g \in Frames /\ g.key = call[c].key
    BY <2>1 DEF Frames, NextNumber
  <2>3. call' = [call EXCEPT ![c] = g] /\ UNCHANGED versions
    BY <1>7 DEF InsertDuplicate
  <2> HIDE DEF g
  <2> QED BY <1>2, <2>1, <2>2, <2>3
<1>8. ASSUME NEW c \in Calls, Insert(c) PROVE KeysOwned'
  <2> DEFINE g == [[call[c] EXCEPT !.pc = "compact"] EXCEPT
                     !.doomed = IF call[c].kind = "append" THEN {call[c].key} ELSE {}]
  <2>1. call[c] \in Frames /\ call[c].pc = "insert"
    BY <1>8, ActiveFrame DEF Insert
  <2>2. g.pc = "compact" /\ g.key = call[c].key
    BY <2>1, CompactingFrame
  <2>3. call' = [call EXCEPT ![c] = IF CompactsNext(call[c]) THEN g ELSE Idle]
    BY <1>8 DEF Insert
  <2> HIDE DEF g
  <2>4. \A d \in Calls : call'[d] = IF d # c THEN call[d]
                                    ELSE IF CompactsNext(call[c]) THEN g ELSE Idle
    BY <2>3 DEF TypeOK
  <2>5. Registered' \subseteq Registered \cup {call[c].key}
    BY <1>8, <2>1, InsertIsNext, ManifestParts
  <2>6. \A d \in Calls : Unpublished(d)' => d # c /\ Unpublished(d) /\ call'[d] = call[d]
    BY <2>2, <2>4, IdleType DEF Unpublished
  <2>7. \A d \in Calls : Unpublished(d)' => call'[d].key \notin Registered'
    BY <2>1, <2>5, <2>6 DEF KeysOwned, Unpublished
  <2>8. \A d, e \in Calls : d # e /\ call'[d].pc # "idle" /\ call'[e].pc # "idle"
                            => call'[d].key # call'[e].key
    BY <2>1, <2>2, <2>4, IdleType DEF KeysOwned
  <2> QED BY <2>7, <2>8 DEF KeysOwned
<1>9. ASSUME NEW c \in Calls, BeginNested(c) PROVE KeysOwned'
  <2>1. PICK k \in Parts \ allocated : call' = [call EXCEPT ![c] = Frame("compact", k, call[c].doomed)]
    BY <1>9 DEF BeginNested
  <2> DEFINE g == Frame("compact", k, call[c].doomed)
  <2>2. call[c] \in Frames
    BY <1>9, ActiveFrame DEF BeginNested
  <2>3. g \in Frames /\ g.key \notin allocated /\ call' = [call EXCEPT ![c] = g]
    BY <2>1, <2>2 DEF Frame, Frames, BaseOf, AllKinds
  <2>4. UNCHANGED versions
    BY <1>9 DEF BeginNested
  <2> HIDE DEF g
  <2> QED BY <1>2, <2>3, <2>4
<1> QED
  BY <1>1, <1>3, <1>4, <1>5, <1>6, <1>7, <1>8, <1>9
  DEF CatalogNext, Progress, StaleBase, MissingBase, Fail

-----------------------------------------------------------------------------
\* A dataset without versions satisfies the invariant.
LEMMA InitInv == CatalogInit => CatalogInv
<1> SUFFICES ASSUME CatalogInit PROVE CatalogInv
  OBVIOUS
<1>1. DOMAIN versions = 1..0
  BY DEF CatalogInit
<1>2. Latest = 0
  BY <1>1, LatestOf
<1>3. \A c \in Calls : call[c] = Idle
  BY DEF CatalogInit
<1>4. TypeOK
  BY <1>1, <1>3, IdleType DEF CatalogInit, TypeOK
<1> QED
  BY <1>1, <1>2, <1>3, <1>4, IdleType
  DEF CatalogInv, Contiguous, NumberBound, BaseKnown, KeysOwned, Unpublished

\* The inductive invariant holds throughout.
THEOREM CatalogInvariant == CatalogSpec => []CatalogInv
<1>1. CatalogInit => CatalogInv
  BY InitInv
<1>2. CatalogInv /\ [CatalogNext]_vars => CatalogInv'
  <2> SUFFICES ASSUME CatalogInv, [CatalogNext]_vars PROVE CatalogInv'
    OBVIOUS
  <2> QED BY TypeStep, NumberStep, KeyStep DEF CatalogInv
<1> QED BY <1>1, <1>2, PTL DEF CatalogSpec

\* The variables of the catalog keep their types, for any number of callers.
THEOREM TypeCorrect == CatalogSpec => []TypeOK
<1>1. CatalogInv => TypeOK
  BY DEF CatalogInv
<1> QED BY <1>1, CatalogInvariant, PTL

\* Version numbers are contiguous whatever writes race, fail or die.
THEOREM NumbersContiguous == CatalogSpec => []Contiguous
<1>1. CatalogInv => Contiguous
  BY DEF CatalogInv
<1> QED BY <1>1, CatalogInvariant, PTL

-----------------------------------------------------------------------------
(* Versions never change. *)

\* A step either registers one version or leaves the table alone; a registered
\* version keeps its row.
LEMMA RowsKept ==
    ASSUME CatalogInv, [CatalogNext]_vars
    PROVE  \/ UNCHANGED versions
           \/ \E c \in Calls : Insert(c)
BY DEF CatalogNext, Progress, StaleBase, MissingBase, Fail, vars, Begin, Stage, EmptyDelta,
       Raise, TakeNumber, InsertDuplicate, BeginNested, Crash

\* Insert adds a row and changes none.
LEMMA InsertKeepsRows ==
    ASSUME CatalogInv, NEW c \in Calls, Insert(c)
    PROVE  /\ \A v \in DOMAIN versions : v \in (DOMAIN versions)' /\ versions'[v] = versions[v]
           /\ versions'[Latest + 1] = [files |-> Manifest(call[c]), source |-> call[c].kind,
                                       base |-> call[c].base]
BY InsertIsNext DEF Insert, CatalogInv, Contiguous

\* The part being written is never one a version names.
LEMMA ContentKept ==
    ASSUME CatalogInv, [CatalogNext]_vars, NEW p \in Registered
    PROVE  content'[p] = content[p]
<1>1. UNCHANGED content \/ \E c \in Calls : Stage(c)
  BY DEF CatalogNext, Progress, StaleBase, MissingBase, Fail, vars, Begin, Insert, EmptyDelta,
         Raise, TakeNumber, InsertDuplicate, BeginNested, Crash
<1>2. ASSUME NEW c \in Calls, Stage(c) PROVE content'[p] = content[p]
  <2>1. call[c].key # p
    BY <1>2 DEF CatalogInv, KeysOwned, Unpublished, Stage
  <2>2. content \in [Parts -> SUBSET Parts] /\ p \in Parts
    BY DEF CatalogInv, TypeOK, Registered
  <2> QED BY <1>2, <2>1, <2>2 DEF Stage
<1> QED BY <1>1, <1>2

\* Every registered version stays and reads the same in the next state.
LEMMA StayPut == ASSUME CatalogInv, [CatalogNext]_vars PROVE VersionStaysPut
<1> SUFFICES ASSUME NEW v \in DOMAIN versions
             PROVE  /\ v \in (DOMAIN versions)'
                    /\ versions'[v] = versions[v]
                    /\ RowsOf(versions[v].files)' = RowsOf(versions[v].files)
  BY DEF VersionStaysPut
<1>1. v \in (DOMAIN versions)' /\ versions'[v] = versions[v]
  BY RowsKept, InsertKeepsRows
<1>2. \A p \in PartsOf(versions[v].files) : content'[p] = content[p]
  BY ContentKept DEF Registered
<1>3. RowsOf(versions[v].files)' = RowsOf(versions[v].files)
  BY <1>1, <1>2 DEF RowsOf, PartsOf
<1> QED BY <1>1, <1>3

\* A version reads the same for ever.
THEOREM ReadsAreStable == CatalogSpec => ReadStable
<1>1. CatalogInv /\ [CatalogNext]_vars => [VersionStaysPut]_vars
  BY StayPut
<1> QED BY <1>1, CatalogInvariant, PTL DEF CatalogSpec, ReadStable

-----------------------------------------------------------------------------
(* Without automatic compaction no version names a missing part. *)

\* No handler deletes a part that is registered, or another call's.
NothingDoomed ==
    \A c \in Calls : call[c].pc # "idle" => call[c].pc # "compact" /\ call[c].doomed = {}

\* A call past the write has its part in storage.
KeysStored ==
    \A c \in Calls : call[c].pc \in {"number", "insert"} => call[c].key \in stored

\* What a call inherits or folds was registered before it.
FilesInv == CatalogInv /\ NothingDoomed /\ KeysStored /\ FilesExist

\* Without automatic compaction no handler deletes a part that a version
\* names, and no call stages a key that another one names: no step loses one.
LEMMA FilesStep ==
    ASSUME AutoCompact = 0, FilesInv, CatalogInv', [CatalogNext]_vars
    PROVE  NothingDoomed' /\ KeysStored' /\ FilesExist'
<1> DEFINE Goal == NothingDoomed' /\ KeysStored' /\ FilesExist'
<1> USE DEF FilesInv
<1>0. FilesExist <=> Registered \subseteq stored
  BY DEF FilesExist, Registered
<1>0a. FilesExist' <=> Registered' \subseteq stored'
  BY DEF FilesExist, Registered
<1>1. CASE UNCHANGED vars
  BY <1>1, <1>0, <1>0a, Quiet DEF vars, NothingDoomed, KeysStored
<1>2. ASSUME NEW c \in Calls, NEW g \in Frames \cup {Idle},
             call' = [call EXCEPT ![c] = g],
             g.pc # "idle" => g.pc # "compact" /\ g.doomed = {},
             g.pc \in {"number", "insert"} => g.key \in stored',
             \A d \in Calls \ {c} : call[d].pc \in {"number", "insert"} /\ call[d].key \in stored
                                    => call[d].key \in stored',
             Registered' \subseteq stored'
      PROVE  Goal
  <2>1. \A d \in Calls : call'[d] = IF d = c THEN g ELSE call[d]
    BY <1>2 DEF CatalogInv, TypeOK
  <2>2. NothingDoomed'
    BY <1>2, <2>1 DEF NothingDoomed
  <2>3. KeysStored'
    BY <1>2, <2>1 DEF KeysStored
  <2> QED BY <1>2, <2>2, <2>3, <1>0a
<1>3. ASSUME NEW c \in Calls, NEW kind \in Kinds, Begin(c, kind) PROVE Goal
  <2>1. PICK k \in Parts \ allocated : call' = [call EXCEPT ![c] = Frame(kind, k, {})]
    BY <1>3 DEF Begin
  <2> DEFINE g == Frame(kind, k, {})
  <2>2. g \in Frames /\ g.pc = "stage" /\ g.doomed = {} /\ call' = [call EXCEPT ![c] = g]
    BY <2>1, KindsAssumption DEF Frame, Frames, BaseOf, CatalogInv
  <2>3. UNCHANGED stored /\ Registered' = Registered
    BY <1>3, Quiet DEF Begin
  <2> HIDE DEF g
  <2> QED BY <1>0, <1>2, <2>2, <2>3
<1>4. ASSUME NEW c \in Calls, Stage(c) PROVE Goal
  <2> DEFINE g == [call[c] EXCEPT !.pc = "number"]
  <2>1. call[c] \in Frames /\ call[c].doomed = {}
    BY <1>4, ActiveFrame DEF Stage, NothingDoomed, CatalogInv
  <2>2. g \in Frames /\ g.pc = "number" /\ g.doomed = {} /\ g.key = call[c].key
    BY <2>1 DEF Frames
  <2>3. /\ call' = [call EXCEPT ![c] = g]
        /\ stored' = stored \cup {call[c].key}
        /\ Registered' = Registered
    BY <1>4, Quiet DEF Stage
  <2> HIDE DEF g
  <2> QED BY <1>0, <1>2, <2>2, <2>3
<1>5. ASSUME NEW c \in Calls, EmptyDelta(c) \/ Crash(c) PROVE Goal
  <2>1. call' = [call EXCEPT ![c] = Idle] /\ UNCHANGED stored /\ Registered' = Registered
    BY <1>5, Quiet DEF EmptyDelta, Crash
  <2> QED BY <1>0, <1>2, <2>1, IdleType
<1>6. ASSUME NEW c \in Calls, call[c].pc # "idle", Raise(c) PROVE Goal
  <2>1. call' = [call EXCEPT ![c] = Idle] /\ Registered' = Registered
        /\ stored' = stored \ Doomed(call[c])
    BY <1>6, Quiet DEF Raise
  <2>2. Unpublished(c) /\ Doomed(call[c]) \subseteq {call[c].key}
    <3>1. call[c] \in Frames /\ call[c].pc # "compact" /\ call[c].doomed = {}
      BY <1>6, ActiveFrame DEF NothingDoomed, CatalogInv
    <3> QED BY <3>1 DEF Doomed, Unpublished, Frames
  <2>3. call[c].key \notin Registered
    BY <2>2 DEF CatalogInv, KeysOwned
  <2>4. Registered' \subseteq stored'
    BY <1>0, <2>1, <2>2, <2>3
  <2>5. \A d \in Calls \ {c} : call[d].pc \in {"number", "insert"} => call[d].key # call[c].key
    BY <1>6 DEF CatalogInv, KeysOwned
  <2>6. \A d \in Calls \ {c} : call[d].pc \in {"number", "insert"} /\ call[d].key \in stored
                                => call[d].key \in stored'
    BY <2>1, <2>2, <2>5
  <2>7. Idle \in Frames \cup {Idle} /\ Idle.pc = "idle"
    BY IdleType
  <2> QED BY <1>2, <2>1, <2>4, <2>6, <2>7
<1>7. ASSUME NEW c \in Calls, TakeNumber(c) PROVE Goal
  <2> DEFINE g == [call[c] EXCEPT !.pc = "insert", !.number = Latest + 1]
  <2>1. call[c] \in Frames /\ call[c].doomed = {} /\ call[c].key \in stored
    BY <1>7, ActiveFrame DEF TakeNumber, NothingDoomed, KeysStored, CatalogInv
  <2>2. Latest + 1 \in Nat
    BY DEF CatalogInv
  <2>3. g \in Frames /\ g.pc = "insert" /\ g.doomed = {} /\ g.key = call[c].key
    BY <2>1, <2>2, TwoFields, Zenon
  <2>4. call' = [call EXCEPT ![c] = g] /\ UNCHANGED stored /\ Registered' = Registered
    BY <1>7, Quiet DEF TakeNumber
  <2> HIDE DEF g
  <2> QED BY <1>0, <1>2, <2>1, <2>3, <2>4
<1>8. ASSUME NEW c \in Calls, InsertDuplicate(c) PROVE Goal
  <2> DEFINE g == [call[c] EXCEPT !.number = NextNumber(call[c])]
  <2>1. call[c] \in Frames /\ call[c].doomed = {} /\ call[c].key \in stored /\ call[c].pc = "insert"
    BY <1>8, ActiveFrame DEF InsertDuplicate, NothingDoomed, KeysStored, CatalogInv
  <2>2. g \in Frames /\ g.pc = "insert" /\ g.doomed = {} /\ g.key = call[c].key
    BY <2>1 DEF Frames, NextNumber
  <2>3. call' = [call EXCEPT ![c] = g] /\ UNCHANGED stored /\ Registered' = Registered
    BY <1>8, Quiet DEF InsertDuplicate
  <2> HIDE DEF g
  <2> QED BY <1>0, <1>2, <2>1, <2>2, <2>3
<1>9. ASSUME NEW c \in Calls, Insert(c) PROVE Goal
  <2>1. ~CompactsNext(call[c])
    BY DEF CompactsNext
  <2>2. call' = [call EXCEPT ![c] = Idle] /\ UNCHANGED stored
    BY <1>9, <2>1 DEF Insert
  <2>3. Registered' \subseteq Registered \cup {call[c].key}
    <3>1. call[c].pc = "insert"
      BY <1>9 DEF Insert
    <3>2. Registered' = Registered \cup PartsOf(Manifest(call[c]))
      BY <1>9, InsertIsNext
    <3>3. PartsOf(Manifest(call[c])) \subseteq Registered \cup {call[c].key}
      BY <3>1, ManifestParts DEF CatalogInv
    <3> QED BY <3>2, <3>3
  <2>4. call[c].key \in stored
    BY <1>9 DEF Insert, KeysStored
  <2> QED BY <1>0, <1>2, <2>2, <2>3, <2>4, IdleType
<1>10. ASSUME NEW c \in Calls, BeginNested(c) PROVE Goal
  BY <1>10 DEF BeginNested, NothingDoomed
<1> QED
  BY <1>1, <1>3, <1>4, <1>5, <1>6, <1>7, <1>8, <1>9, <1>10
  DEF CatalogNext, Progress, StaleBase, MissingBase, Fail, Raise

\* With automatic compaction off, its default, every part a version names is
\* in storage, whatever failed or died on the way.
THEOREM FilesAlwaysExist == ASSUME AutoCompact = 0 PROVE CatalogSpec => []FilesExist
<1>1. CatalogInit => FilesInv
  <2> SUFFICES ASSUME CatalogInit PROVE FilesInv
    OBVIOUS
  <2>1. CatalogInv
    BY InitInv
  <2> QED BY <2>1, IdleType DEF CatalogInit, FilesInv, NothingDoomed, KeysStored, FilesExist
<1>2. FilesInv /\ CatalogInv' /\ [CatalogNext]_vars => FilesInv'
  BY FilesStep DEF FilesInv
<1>3. FilesInv => FilesExist
  BY DEF FilesInv
<1> QED BY <1>1, <1>2, <1>3, CatalogInvariant, PTL DEF CatalogSpec

-----------------------------------------------------------------------------
(* A fold discards nothing. *)

\* A fold that has written its part holds the rows of its base in it, and one
\* that has a number has the number above its base.
FoldStaged ==
    \A c \in Calls, b \in Nat :
        call[c].pc \in {"number", "insert"} /\ call[c].kind = "writeback" /\ call[c].base = b =>
            /\ RowsOf(ManifestAt(b)) \subseteq content[call[c].key]
            /\ call[c].pc = "insert" => call[c].number = b + 1

FoldInv == CatalogInv /\ FoldStaged /\ FoldKeepsBase

\* The rows of a version that exists do not change, version 0 included.
LEMMA BaseRowsKept ==
    ASSUME CatalogInv, [CatalogNext]_vars, NEW v \in 0..Latest
    PROVE  RowsOf(ManifestAt(v))' = RowsOf(ManifestAt(v))
<1>1. CASE v = 0
  BY <1>1 DEF ManifestAt, RowsOf, PartsOf
<1>2. CASE v # 0
  <2>1. v \in DOMAIN versions
    BY <1>2 DEF CatalogInv, Contiguous
  <2>2. versions'[v] = versions[v] /\ RowsOf(versions[v].files)' = RowsOf(versions[v].files)
    BY <2>1, StayPut DEF VersionStaysPut
  <2> QED BY <1>2, <2>2 DEF ManifestAt
<1> QED BY <1>1, <1>2

\* A call's part keeps its contents from the moment it is written.
LEMMA StagedKept ==
    ASSUME CatalogInv, [CatalogNext]_vars, NEW c \in Calls, call[c].pc \in {"number", "insert"}
    PROVE  content'[call[c].key] = content[call[c].key]
<1>1. UNCHANGED content \/ \E d \in Calls : Stage(d)
  BY DEF CatalogNext, Progress, StaleBase, MissingBase, Fail, vars, Begin, Insert, EmptyDelta,
         Raise, TakeNumber, InsertDuplicate, BeginNested, Crash
<1>2. ASSUME NEW d \in Calls, Stage(d) PROVE content'[call[c].key] = content[call[c].key]
  <2>1. call[d].pc = "stage" /\ content' = [content EXCEPT ![call[d].key] = StagedRows(call[d])]
    BY <1>2 DEF Stage
  <2>2. call[d].key # call[c].key
    BY <2>1 DEF CatalogInv, KeysOwned
  <2>3. call[c].key \in Parts /\ content \in [Parts -> SUBSET Parts]
    BY ActiveFrame DEF CatalogInv, TypeOK, Frames
  <2> QED BY <2>1, <2>2, <2>3
<1> QED BY <1>1, <1>2

\* Who may be past the write after a step: the call that took it, or one that
\* was already there and did not move.
LEMMA FoldStagedStep == ASSUME FoldInv, [CatalogNext]_vars PROVE FoldStaged'
<1> USE DEF FoldInv
<1> SUFFICES ASSUME NEW c \in Calls, NEW b \in Nat, call'[c].pc \in {"number", "insert"},
                    call'[c].kind = "writeback", call'[c].base = b
             PROVE  /\ RowsOf(ManifestAt(b))' \subseteq content'[call'[c].key]
                    /\ call'[c].pc = "insert" => call'[c].number = b + 1
  BY DEF FoldStaged
<1>1. CASE call'[c] = call[c]
  <2>1. b \in 0..Latest
    BY <1>1 DEF CatalogInv, BaseKnown
  <2>2. RowsOf(ManifestAt(b))' = RowsOf(ManifestAt(b))
    BY <2>1, BaseRowsKept DEF FoldInv
  <2>3. content'[call[c].key] = content[call[c].key]
    BY <1>1, StagedKept
  <2>4. /\ RowsOf(ManifestAt(b)) \subseteq content[call[c].key]
        /\ call[c].pc = "insert" => call[c].number = b + 1
    BY <1>1 DEF FoldStaged
  <2> QED BY <1>1, <2>2, <2>3, <2>4
<1>2. CASE call'[c] # call[c]
  <2>0. CatalogNext
    BY <1>2 DEF vars
  <2>1. ASSUME NEW d \in Calls,
               \/ \E kind \in Kinds : Begin(d, kind)
               \/ EmptyDelta(d) \/ Crash(d) \/ Raise(d) \/ BeginNested(d)
        PROVE  FALSE
    <3>1. ASSUME NEW kind, NEW k, NEW D PROVE Frame(kind, k, D).pc = "stage"
      BY DEF Frame
    <3>2. \E g : call' = [call EXCEPT ![d] = g] /\ g.pc \in {"idle", "stage"}
      <4>1. CASE \E kind \in Kinds : Begin(d, kind)
        <5>1. PICK kind \in Kinds : Begin(d, kind)
          BY <4>1
        <5>2. PICK k \in Parts : call' = [call EXCEPT ![d] = Frame(kind, k, {})]
          BY <5>1 DEF Begin
        <5>3. Frame(kind, k, {}).pc = "stage"
          BY <3>1
        <5> QED BY <5>2, <5>3
      <4>2. CASE BeginNested(d)
        <5>1. PICK k : call' = [call EXCEPT ![d] = Frame("compact", k, call[d].doomed)]
          BY <4>2 DEF BeginNested
        <5>2. Frame("compact", k, call[d].doomed).pc = "stage"
          BY <3>1
        <5> QED BY <5>1, <5>2
      <4>3. CASE EmptyDelta(d) \/ Crash(d) \/ Raise(d)
        <5>1. call' = [call EXCEPT ![d] = Idle]
          BY <4>3 DEF EmptyDelta, Crash, Raise
        <5> QED BY <5>1, IdleType
      <4> QED BY <2>1, <4>1, <4>2, <4>3
    <3> QED BY <1>2, <3>2 DEF CatalogInv, TypeOK
  <2>2. ASSUME NEW d \in Calls, Insert(d) PROVE FALSE
    <3> DEFINE g == [[call[d] EXCEPT !.pc = "compact"] EXCEPT
                     !.doomed = IF call[d].kind = "append" THEN {call[d].key} ELSE {}]
    <3>1. g.pc = "compact"
      BY <2>2, ActiveFrame, CompactingFrame DEF Insert, CatalogInv
    <3>2. call' = [call EXCEPT ![d] = IF CompactsNext(call[d]) THEN g ELSE Idle]
      BY <2>2 DEF Insert
    <3> HIDE DEF g
    <3> QED BY <1>2, <3>1, <3>2, IdleType DEF CatalogInv, TypeOK
  <2>3. ASSUME NEW d \in Calls, InsertDuplicate(d) PROVE FALSE
    <3>1. call[d].kind # "writeback" /\ call[d] \in Frames
      BY <2>3, ActiveFrame DEF InsertDuplicate, CompareAndSet, CatalogInv
    <3>2. call' = [call EXCEPT ![d].number = NextNumber(call[d])]
      BY <2>3 DEF InsertDuplicate
    <3> QED BY <1>2, <3>1, <3>2 DEF CatalogInv, TypeOK, Frames
  <2>4. ASSUME NEW d \in Calls, Stage(d)
        PROVE  /\ RowsOf(ManifestAt(b))' \subseteq content'[call'[c].key]
               /\ call'[c].pc = "insert" => call'[c].number = b + 1
    <3>1. /\ call[d] \in Frames
          /\ call' = [call EXCEPT ![d].pc = "number"]
          /\ content' = [content EXCEPT ![call[d].key] = StagedRows(call[d])]
          /\ UNCHANGED versions
      BY <2>4, ActiveFrame DEF Stage, CatalogInv
    <3>2. d = c
      BY <1>2, <3>1 DEF CatalogInv, TypeOK
    <3>3. /\ call'[c].pc = "number" /\ call'[c].key = call[c].key
          /\ call'[c].base = call[c].base /\ call'[c].kind = call[c].kind
      BY <3>1, <3>2 DEF CatalogInv, TypeOK, Frames
    <3>4. content'[call[c].key] = RowsOf(ManifestAt(b)) \cup {call[c].key}
      <4>1. StagedRows(call[c]) = RowsOf(ManifestAt(b)) \cup {call[c].key}
        BY <3>3 DEF StagedRows
      <4>2. call[c].key \in Parts /\ content \in [Parts -> SUBSET Parts]
        BY <3>1, <3>2 DEF Frames, CatalogInv, TypeOK
      <4> QED BY <3>1, <3>2, <4>1, <4>2
    <3>5. b \in 0..Latest
      BY <2>4, <3>2, <3>3 DEF CatalogInv, BaseKnown, Stage
    <3>6. RowsOf(ManifestAt(b))' = RowsOf(ManifestAt(b))
      BY <3>5, BaseRowsKept DEF FoldInv
    <3> QED BY <3>3, <3>4, <3>6
  <2>5. ASSUME NEW d \in Calls, TakeNumber(d)
        PROVE  /\ RowsOf(ManifestAt(b))' \subseteq content'[call'[c].key]
               /\ call'[c].pc = "insert" => call'[c].number = b + 1
    <3> DEFINE g == [call[d] EXCEPT !.pc = "insert", !.number = Latest + 1]
    <3>1. call[d] \in Frames /\ call[d].pc = "number" /\ Latest + 1 \in Nat
      BY <2>5, ActiveFrame DEF TakeNumber, CatalogInv
    <3>2. g.number = Latest + 1 /\ g.key = call[d].key /\ g.base = call[d].base /\ g.kind = call[d].kind
      BY <3>1, TwoFields, Zenon
    <3>3. call' = [call EXCEPT ![d] = g] /\ UNCHANGED <<versions, content>>
      BY <2>5 DEF TakeNumber
    <3> HIDE DEF g
    <3>4. d = c /\ call'[c] = g
      BY <1>2, <3>3 DEF CatalogInv, TypeOK
    <3>5. call[c].kind = "writeback" /\ Latest = b /\ call[c].base = b
      BY <2>5, <3>2, <3>4 DEF TakeNumber, CompareAndSet
    <3>6. RowsOf(ManifestAt(b)) \subseteq content[call[c].key]
      BY <3>1, <3>4, <3>5 DEF FoldStaged
    <3>7. b \in 0..Latest
      BY <3>5
    <3>8. RowsOf(ManifestAt(b))' = RowsOf(ManifestAt(b))
      BY <3>7, BaseRowsKept DEF FoldInv
    <3> QED BY <3>2, <3>3, <3>4, <3>5, <3>6, <3>8
  <2> QED
    BY <2>0, <2>1, <2>2, <2>3, <2>4, <2>5
    DEF CatalogNext, Progress, StaleBase, MissingBase, Fail
<1> QED BY <1>1, <1>2

\* A version that folds keeps what it folded.
LEMMA FoldStep == ASSUME FoldInv, [CatalogNext]_vars PROVE FoldKeepsBase'
<1> USE DEF FoldInv
<1> SUFFICES ASSUME NEW v \in (DOMAIN versions)', versions'[v].source = "writeback"
             PROVE  /\ versions'[v].base = v - 1
                    /\ RowsOf(ManifestAt(v - 1))' \subseteq RowsOf(versions[v].files)'
  BY DEF FoldKeepsBase
<1>1. CASE v \in DOMAIN versions
  <2>1. versions'[v] = versions[v] /\ RowsOf(versions[v].files)' = RowsOf(versions[v].files)
    BY <1>1, StayPut DEF VersionStaysPut
  <2>2. v - 1 \in 0..Latest
    BY <1>1 DEF CatalogInv, Contiguous
  <2>3. RowsOf(ManifestAt(v - 1))' = RowsOf(ManifestAt(v - 1))
    BY <2>2, BaseRowsKept
  <2> QED BY <1>1, <2>1, <2>3 DEF FoldKeepsBase
<1>2. CASE v \notin DOMAIN versions
  <2>1. PICK c \in Calls : Insert(c)
    BY <1>2, RowsKept
  <2>2. call[c].pc = "insert" /\ call[c].number = Latest + 1 /\ v = Latest + 1
    BY <1>2, <2>1, InsertIsNext DEF Insert, CatalogInv, Contiguous
  <2>3. versions'[v] = [files |-> Manifest(call[c]), source |-> call[c].kind, base |-> call[c].base]
    BY <2>1, <2>2, InsertKeepsRows
  <2>4. v - 1 \in 0..Latest /\ v - 1 \in Nat /\ call[c].base \in Nat /\ v = Latest + 1
    BY <2>2 DEF CatalogInv, BaseKnown
  <2>5. call[c].kind = "writeback" /\ call[c].base = v - 1
        /\ RowsOf(ManifestAt(v - 1)) \subseteq content[call[c].key]
    <3>1. call[c].kind = "writeback"
      BY <2>3
    <3>2. call[c].number = call[c].base + 1
      BY <2>2, <2>4, <3>1 DEF FoldStaged
    <3>3. call[c].base = v - 1
      BY <2>2, <2>4, <3>2 DEF CatalogInv
    <3> QED BY <2>2, <2>4, <3>1, <3>3 DEF FoldStaged
  <2>6. RowsOf(ManifestAt(v - 1))' = RowsOf(ManifestAt(v - 1))
    BY <2>4, BaseRowsKept
  <2>7. RowsOf(versions[v].files)' = content[call[c].key]
    <3>1. versions'[v].files = <<call[c].key>>
      BY <2>3, <2>5 DEF Manifest, Inherits
    <3>2. UNCHANGED content
      BY <2>1 DEF Insert
    <3> QED BY <3>1, <3>2 DEF RowsOf, PartsOf
  <2> QED BY <2>3, <2>5, <2>6, <2>7
<1> QED BY <1>1, <1>2

\* A fold registers one version above its base and keeps its base's rows.
THEOREM FoldsLoseNothing == CatalogSpec => []FoldKeepsBase
<1>1. CatalogInit => FoldInv
  <2> SUFFICES ASSUME CatalogInit PROVE FoldInv
    OBVIOUS
  <2>1. CatalogInv
    BY InitInv
  <2> QED BY <2>1, IdleType DEF CatalogInit, FoldInv, FoldStaged, FoldKeepsBase
<1>2. FoldInv /\ CatalogInv' /\ [CatalogNext]_vars => FoldInv'
  BY FoldStagedStep, FoldStep DEF FoldInv
<1>3. FoldInv => FoldKeepsBase
  BY DEF FoldInv
<1> QED BY <1>1, <1>2, <1>3, CatalogInvariant, PTL DEF CatalogSpec

-----------------------------------------------------------------------------
(* The catalog is a history of immutable versions. *)

\* What a reader sees of each version.
SeenHistory == [v \in DOMAIN versions |-> RowsOf(versions[v].files)]

\* Rows are batches, named by the parts they arrived in.
LEMMA RowsAreBatches ==
    ASSUME TypeOK, NEW v \in DOMAIN versions
    PROVE  RowsOf(versions[v].files) \in SUBSET Parts
BY DEF TypeOK, Rows, RowsOf, PartsOf

\* The same of the next state.
LEMMA RowsAreBatchesNext ==
    ASSUME TypeOK', NEW v \in (DOMAIN versions)'
    PROVE  RowsOf(versions[v].files)' \in SUBSET Parts
BY DEF TypeOK, Rows, RowsOf, PartsOf

\* Append, as the function it is.
LEMMA AppendAsFunction ==
    ASSUME NEW S, NEW s \in Seq(S), NEW e \in S
    PROVE  Append(s, e) = [v \in 1..(Len(s) + 1) |-> IF v = Len(s) + 1 THEN e ELSE s[v]]
<1> DEFINE t == Append(s, e)
<1>1. /\ t \in Seq(S) /\ Len(t) = Len(s) + 1 /\ t[Len(s) + 1] = e /\ Len(s) \in Nat
      /\ \A i \in 1..Len(s) : t[i] = s[i]
  BY AppendProperties
<1> HIDE DEF t
<1>2. t = [v \in 1..(Len(s) + 1) |-> t[v]]
  BY <1>1
<1>3. \A v \in 1..(Len(s) + 1) : t[v] = IF v = Len(s) + 1 THEN e ELSE s[v]
  BY <1>1
<1> QED BY <1>2, <1>3 DEF t

\* Numbers being contiguous, what readers see of the dataset is a sequence.
LEMMA SeenIsSeq ==
    ASSUME CatalogInv PROVE SeenHistory \in Seq(SUBSET Parts) /\ Len(SeenHistory) = Latest
<1>1. DOMAIN versions = 1..Latest /\ Latest \in Nat
  BY DEF CatalogInv, Contiguous
<1>2. SeenHistory \in [1..Latest -> SUBSET Parts]
  BY <1>1, RowsAreBatches DEF SeenHistory, CatalogInv
<1> QED BY <1>1, <1>2

\* Publishing a version appends its rows to what readers have seen.
LEMMA PublishStep ==
    ASSUME CatalogInv, CatalogInv', [CatalogNext]_vars
    PROVE  UNCHANGED SeenHistory \/ \E rows \in SUBSET Parts : SeenHistory' = Append(SeenHistory, rows)
<1>1. \A v \in DOMAIN versions :
         v \in (DOMAIN versions)' /\ RowsOf(versions[v].files)' = RowsOf(versions[v].files)
  BY StayPut DEF VersionStaysPut
<1>2. CASE UNCHANGED versions
  <2>1. (DOMAIN versions)' = DOMAIN versions
    BY <1>2
  <2> QED BY <1>1, <2>1 DEF SeenHistory
<1>3. ASSUME NEW c \in Calls, Insert(c)
      PROVE  \E rows \in SUBSET Parts : SeenHistory' = Append(SeenHistory, rows)
  <2>0. PICK n \in Nat : n = Latest + 1
    BY DEF CatalogInv
  <2>1. /\ n = Latest + 1
        /\ (DOMAIN versions)' = 1..n
        /\ DOMAIN versions = 1..Latest
        /\ Latest \in Nat
    BY <1>3, <2>0, InsertIsNext DEF CatalogInv, Contiguous
  <2>2. PICK r : r = SeenHistory'[n]
    OBVIOUS
  <2>3. SeenHistory' = [v \in 1..n |-> IF v = n THEN r ELSE SeenHistory[v]]
    BY <1>1, <2>1, <2>2 DEF SeenHistory
  <2>4. r \in SUBSET Parts
    <3>1. n \in (DOMAIN versions)'
      BY <2>1
    <3>2. RowsOf(versions[n].files)' \in SUBSET Parts
      BY <3>1, RowsAreBatchesNext DEF CatalogInv
    <3> QED BY <2>2, <3>1, <3>2 DEF SeenHistory
  <2>5. Append(SeenHistory, r) = [v \in 1..n |-> IF v = n THEN r ELSE SeenHistory[v]]
    <3>1. SeenHistory \in Seq(SUBSET Parts) /\ Len(SeenHistory) = Latest
      BY SeenIsSeq
    <3> HIDE DEF SeenHistory
    <3> QED BY <2>1, <3>1, <2>4, AppendAsFunction
  <2> QED BY <2>3, <2>4, <2>5
<1> QED BY <1>2, <1>3, RowsKept

\* The catalog implements the history of versions it promises its readers.
THEOREM CatalogRefinesHistory == CatalogSpec => ImplementsHistory
<1>1. CatalogInit => History!HistoryInit
  BY DEF CatalogInit, History!HistoryInit
<1>2. CatalogInv /\ CatalogInv' /\ [CatalogNext]_vars => [History!HistoryNext]_SeenHistory
  BY PublishStep DEF History!HistoryNext, History!Publish, SeenHistory
<1> QED BY <1>1, <1>2, CatalogInvariant, PTL
    DEF CatalogSpec, ImplementsHistory, History!HistorySpec, SeenHistory
=============================================================================
