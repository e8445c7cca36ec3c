-------------------------- MODULE ClientCacheProofs --------------------------
(***************************************************************************)
(* Proofs about ClientCache, for any windows, records, names of requests   *)
(* and sizes: no cache that a window reaches has a record as it was before *)
(* the window saved it, or a selection from before that, except entries    *)
(* that were already old when they arrived.                                *)
(*                                                                         *)
(* A window may get a cache long after it has written.  What it gets then  *)
(* is a cache that it reached before, or one that is empty; that is what   *)
(* IInv says of the caches, besides the two properties.                    *)
(***************************************************************************)
EXTENDS ClientCache, SequenceTheorems, TLAPS

OwnNames(entries) ==
  \A i \in DOMAIN entries : entries[i].name = CacheKey[entries[i].request]

OneOfEachName(entries) ==
  \A i, j \in DOMAIN entries : entries[i].name = entries[j].name => i = j

\* An entry has the name of its request, and is the only one of that name.
EntriesNamed ==
  \A c \in Window : OwnNames(values[c]) /\ OneOfEachName(values[c])

\* A window that is closed is nobody's opener and has nothing.
ClosedHasNothing ==
  /\ \A w \in Window : up[w] # None => up[w] \in open
  /\ \A w \in Window \ open :
       /\ up[w] = None /\ gcache[w] = None
       /\ asked[w] = None /\ known[w] = Unknown

\* A cache is that of the window that made it, as long as that is open.
CachesMade ==
  \A v \in Window :
    gcache[v] # None =>
      /\ gcache[v] \in opened
      /\ gcache[v] \in open => gcache[gcache[v]] = gcache[v]

\* Entries are in caches that windows have.
EntriesUsed ==
  \A c \in Window : values[c] # << >> => \E v \in open : gcache[v] = c

\* A window that has saved a record has a cache.
WriterHasCache ==
  \A w \in Window : gcache[w] = None => known[w].own = Fresh

IInv ==
  /\ TypeOK /\ EntriesNamed /\ ClosedHasNothing /\ CachesMade /\ EntriesUsed
  /\ WriterHasCache /\ SavesForgotten /\ SelectionsRefreshed

-----------------------------------------------------------------------------
(* Lists of entries.                                                       *)

\* What is in some is in entries.
Some(some, entries) ==
  \A i \in DOMAIN some : \E j \in DOMAIN entries : some[i] = entries[j]

NoneNamed(entries, request) ==
  \A i \in DOMAIN entries : entries[i].name # CacheKey[request]

LEMMA WithoutEntries ==
  ASSUME NEW entries \in Seq(Entry), OneOfEachName(entries), NEW request
  PROVE  /\ Without(entries, request) \in Seq(Entry)
         /\ OneOfEachName(Without(entries, request))
         /\ Some(Without(entries, request), entries)
         /\ NoneNamed(Without(entries, request), request)
  <1> DEFINE named == {i \in DOMAIN entries :
                         entries[i].name = CacheKey[request]}
             n == CHOOSE i \in named : TRUE
             some == RemoveAt(entries, n)
  <1>1. CASE named = {}
    <2>1. Without(entries, request) = entries
      BY <1>1 DEF Without
    <2> QED
      BY <1>1, <2>1 DEF Some, NoneNamed
  <1>2. CASE named # {}
    <2>1. Without(entries, request) = some
      BY <1>2 DEF Without
    <2>2. n \in named
      BY <1>2
    <2> HIDE DEF n
    <2>3. n \in 1..Len(entries) /\ Len(entries) \in Nat
          /\ \A i \in 1..Len(entries) \ {n} :
               entries[i].name # CacheKey[request]
      BY <2>2 DEF OneOfEachName
    <2>4. /\ some \in Seq(Entry) /\ Len(some) = Len(entries) - 1
          /\ \A i \in 1..(Len(entries) - 1) :
               some[i] = IF i < n THEN entries[i] ELSE entries[i + 1]
      <3> DEFINE a == SubSeq(entries, 1, n - 1)
                 b == SubSeq(entries, n + 1, Len(entries))
      <3>1. /\ a \in Seq(Entry) /\ Len(a) = n - 1
            /\ \A i \in 1..(n - 1) : a[i] = entries[i]
        BY <2>3, SubSeqProperties
      <3>2. /\ b \in Seq(Entry) /\ Len(b) = Len(entries) - n
            /\ \A i \in 1..(Len(entries) - n) : b[i] = entries[n + i]
        BY <2>3, SubSeqProperties
      <3>3. some = a \o b
        BY DEF RemoveAt
      <3> HIDE DEF a, b, some
      <3>4. /\ some \in Seq(Entry) /\ Len(some) = Len(a) + Len(b)
            /\ \A i \in 1..(Len(a) + Len(b)) :
                 some[i] = IF i <= Len(a) THEN a[i] ELSE b[i - Len(a)]
        BY <3>1, <3>2, <3>3, ConcatProperties
      <3>5. Len(some) = Len(entries) - 1
        BY <2>3, <3>1, <3>2, <3>4
      <3>6. ASSUME NEW i \in 1..(Len(entries) - 1)
            PROVE  some[i] = IF i < n THEN entries[i] ELSE entries[i + 1]
        <4>1. some[i] = IF i <= n - 1 THEN a[i] ELSE b[i - (n - 1)]
          BY <2>3, <3>1, <3>2, <3>4
        <4>2. CASE i < n
          BY <2>3, <3>1, <4>1, <4>2
        <4>3. CASE ~(i < n)
          <5>1. /\ i - (n - 1) \in 1..(Len(entries) - n)
                /\ n + (i - (n - 1)) = i + 1
            BY <2>3, <4>3
          <5>2. some[i] = b[i - (n - 1)]
            BY <2>3, <4>1, <4>3
          <5>3. b[i - (n - 1)] = entries[n + (i - (n - 1))]
            BY <3>2, <5>1
          <5> QED
            BY <4>3, <5>1, <5>2, <5>3
        <4> QED
          BY <4>2, <4>3
      <3> QED
        BY <3>4, <3>5, <3>6
    <2> HIDE DEF some
    <2>5. DOMAIN some = 1..(Len(entries) - 1)
      BY <2>3, <2>4
    <2>6. \A i \in DOMAIN some :
            \E j \in 1..Len(entries) \ {n} :
              some[i] = entries[j] /\ j = IF i < n THEN i ELSE i + 1
      BY <2>3, <2>4, <2>5
    <2>7. NoneNamed(some, request) /\ Some(some, entries)
      BY <2>3, <2>6 DEF NoneNamed, Some
    <2>8. OneOfEachName(some)
      <3> SUFFICES ASSUME NEW i \in DOMAIN some, NEW j \in DOMAIN some,
                          some[i].name = some[j].name
                   PROVE  i = j
        BY DEF OneOfEachName
      <3>1. PICK p \in 1..Len(entries) \ {n} :
              some[i] = entries[p] /\ p = IF i < n THEN i ELSE i + 1
        BY <2>6
      <3>2. PICK q \in 1..Len(entries) \ {n} :
              some[j] = entries[q] /\ q = IF j < n THEN j ELSE j + 1
        BY <2>6
      <3>3. p = q
        BY <3>1, <3>2 DEF OneOfEachName
      <3> QED
        BY <2>3, <2>5, <3>1, <3>2, <3>3
    <2> QED
      BY <2>1, <2>4, <2>7, <2>8
  <1> QED
    BY <1>1, <1>2

LEMMA SomeNone ==
  ASSUME NEW entries, NEW some, NEW request, Some(some, entries),
         NoneNamed(entries, request)
  PROVE  NoneNamed(some, request)
  BY DEF Some, NoneNamed

LEMMA SomeOfSome ==
  ASSUME NEW a, NEW b, NEW c, Some(a, b), Some(b, c)
  PROVE  Some(a, c)
  BY DEF Some

LEMMA PrunedEntries ==
  ASSUME NEW entries \in Seq(Entry), OneOfEachName(entries), NEW k
  PROVE  LET some == PrunedBySave(entries, k) IN
         /\ some \in Seq(Entry) /\ OneOfEachName(some)
         /\ Some(some, entries)
         /\ NoneNamed(some, Select) /\ NoneNamed(some, Read(k))
  <1> DEFINE a == Without(entries, Select)
             b == Without(a, Read(k))
  <1>1. /\ a \in Seq(Entry) /\ OneOfEachName(a) /\ Some(a, entries)
        /\ NoneNamed(a, Select)
    BY WithoutEntries
  <1> HIDE DEF a
  <1>2. /\ b \in Seq(Entry) /\ OneOfEachName(b) /\ Some(b, a)
        /\ NoneNamed(b, Read(k))
    BY <1>1, WithoutEntries
  <1> HIDE DEF b
  <1>3. Some(b, entries) /\ NoneNamed(b, Select)
    BY <1>1, <1>2, SomeNone, SomeOfSome
  <1> QED
    BY <1>2, <1>3 DEF a, b, PrunedBySave, Prune

LEMMA TrimmedEntries ==
  ASSUME NEW entries \in Seq(Entry), OneOfEachName(entries),
         Len(entries) > MaxEntries
  PROVE  /\ Trimmed(entries) \in Seq(Entry)
         /\ OneOfEachName(Trimmed(entries))
         /\ Some(Trimmed(entries), entries)
  <1> DEFINE n == Len(entries) - MaxEntries
             some == Trimmed(entries)
  <1>1. n \in 1..Len(entries) /\ Len(entries) \in Nat /\ MaxEntries \in Nat
    BY CacheAssumption
  <1>2. /\ some \in Seq(Entry) /\ Len(some) = MaxEntries
        /\ \A i \in 1..MaxEntries : some[i] = entries[n + i]
    BY <1>1 DEF Trimmed
  <1>3. DOMAIN some = 1..MaxEntries
    BY <1>1, <1>2
  <1>4. \A i \in DOMAIN some :
          \E j \in DOMAIN entries : some[i] = entries[j] /\ j = n + i
    BY <1>1, <1>2, <1>3
  <1>5. OneOfEachName(some)
    <2> SUFFICES ASSUME NEW i \in DOMAIN some, NEW j \in DOMAIN some,
                        some[i].name = some[j].name
                 PROVE  i = j
      BY DEF OneOfEachName
    <2>1. /\ n + i \in DOMAIN entries /\ some[i] = entries[n + i]
          /\ n + j \in DOMAIN entries /\ some[j] = entries[n + j]
      BY <1>4
    <2>2. n + i = n + j
      BY <2>1 DEF OneOfEachName
    <2> QED
      BY <1>1, <1>3, <2>2
  <1> QED
    BY <1>2, <1>4, <1>5 DEF Some

LEMMA PutEntries ==
  ASSUME NEW entries \in Seq(Entry), OneOfEachName(entries), NEW e \in Entry
  PROVE  /\ Put(entries, e) \in Seq(Entry)
         /\ OneOfEachName(Put(entries, e))
         /\ \A i \in DOMAIN Put(entries, e) :
              \/ Put(entries, e)[i] = e
              \/ \E j \in DOMAIN entries : Put(entries, e)[i] = entries[j]
  <1> DEFINE all == Put(entries, e)
  <1>1. CASE \E i \in DOMAIN entries : entries[i].name = e.name
    <2>1. all = [i \in DOMAIN entries |->
                   IF entries[i].name = e.name THEN e ELSE entries[i]]
      BY <1>1 DEF Put
    <2>2. /\ all \in Seq(Entry) /\ DOMAIN all = DOMAIN entries
          /\ \A i \in DOMAIN entries :
               /\ all[i] \in {e, entries[i]} /\ all[i].name = entries[i].name
      BY <2>1
    <2> HIDE DEF all
    <2>3. OneOfEachName(all)
      BY <2>2 DEF OneOfEachName
    <2> QED
      BY <2>2, <2>3 DEF all
  <1>2. CASE ~\E i \in DOMAIN entries : entries[i].name = e.name
    <2>1. all = Append(entries, e)
      BY <1>2 DEF Put
    <2>2. /\ all \in Seq(Entry) /\ DOMAIN all = 1..(Len(entries) + 1)
          /\ DOMAIN entries = 1..Len(entries) /\ Len(entries) \in Nat
          /\ all[Len(entries) + 1] = e
          /\ \A i \in 1..Len(entries) : all[i] = entries[i]
      BY <2>1
    <2> HIDE DEF all
    <2>3. OneOfEachName(all)
      BY <1>2, <2>2 DEF OneOfEachName
    <2> QED
      BY <2>2, <2>3 DEF all
  <1> QED
    BY <1>1, <1>2

\* No entry of this kind is older than what was written, by key.
NoneBefore(entries, kind, written) ==
  \A i \in DOMAIN entries, k \in Key :
    LET e == entries[i] IN
    e.request.kind = kind /\ e.request.key \in {k, None} /\ ~e.late
      => e.versions[k] >= written[k]

LEMMA SomeKeep ==
  ASSUME NEW entries, NEW some, Some(some, entries)
  PROVE  /\ OwnNames(entries) => OwnNames(some)
         /\ \A kind, written : NoneBefore(entries, kind, written)
                                 => NoneBefore(some, kind, written)
  <1>1. OwnNames(entries) => OwnNames(some)
    BY DEF Some, OwnNames
  <1>2. ASSUME NEW kind, NEW written, NoneBefore(entries, kind, written)
        PROVE  NoneBefore(some, kind, written)
    <2> SUFFICES ASSUME NEW i \in DOMAIN some, NEW k \in Key,
                        some[i].request.kind = kind,
                        some[i].request.key \in {k, None}, ~some[i].late
                 PROVE  some[i].versions[k] >= written[k]
      BY DEF NoneBefore
    <2>1. PICK j \in DOMAIN entries : some[i] = entries[j]
      BY DEF Some
    <2> QED
      BY <1>2, <2>1 DEF NoneBefore
  <1> QED
    BY <1>1, <1>2

LEMMA EmptyEntries ==
  /\ << >> \in Seq(Entry) /\ OwnNames(<< >>) /\ OneOfEachName(<< >>)
  /\ \A kind, written : NoneBefore(<< >>, kind, written)
  /\ \A entries : Some(<< >>, entries)
  BY DEF OwnNames, OneOfEachName, NoneBefore, Some

LEMMA SameEntries ==
  ASSUME NEW entries
  PROVE  Some(entries, entries)
  BY DEF Some

LEMMA FreshEntries ==
  ASSUME NEW entries \in Seq(Entry), NEW kind
  PROVE  NoneBefore(entries, kind, Fresh)
  <1> SUFFICES ASSUME NEW i \in DOMAIN entries, NEW k \in Key
               PROVE  entries[i].versions[k] >= Fresh[k]
    BY DEF NoneBefore
  <1>0. entries[i] \in Entry
    OBVIOUS
  <1>1. entries[i].versions[k] \in 0..MaxWrites
    BY <1>0 DEF Entry, Contents
  <1> QED
    BY <1>1, CacheAssumption DEF Fresh

\* What has just been written is not older than what is left when the answers
\* to the request are gone.
LEMMA WrittenEntries ==
  ASSUME NEW entries \in Seq(Entry), OwnNames(entries),
         NEW kind, NEW k \in Key, NEW request \in {Read(k), Select},
         request.kind = kind, NoneNamed(entries, request),
         NEW written \in Contents, NEW now \in Contents,
         \A key \in Key \ {k} : now[key] = written[key],
         NoneBefore(entries, kind, written)
  PROVE  NoneBefore(entries, kind, now)
  <1> SUFFICES ASSUME NEW i \in DOMAIN entries, NEW key \in Key,
                      entries[i].request.kind = kind,
                      entries[i].request.key \in {key, None},
                      ~entries[i].late
               PROVE  entries[i].versions[key] >= now[key]
    BY DEF NoneBefore
  <1>0. entries[i] \in Entry
    OBVIOUS
  <1>1. entries[i].request \in Request /\ entries[i].request # request
    BY <1>0 DEF Entry, OwnNames, NoneNamed
  <1>2. key # k
    BY <1>1, CacheAssumption DEF Request, Read, Select
  <1> QED
    BY <1>2 DEF NoneBefore

-----------------------------------------------------------------------------
(* Chains of openers, and the caches they reach.                           *)

LEMMA ChainFacts ==
  ASSUME NEW w \in Window, up \in [Window -> Window \cup {None}]
  PROVE  /\ Chain(w) \subseteq Window /\ w \in Chain(w)
         /\ UpClosed(Chain(w))
         /\ \A s \in SUBSET Window : w \in s /\ UpClosed(s) => Chain(w) \subseteq s
  <1>1. Chain(w) \subseteq Window /\ w \in Chain(w)
    BY DEF Chain
  <1>2. \A s \in SUBSET Window : w \in s /\ UpClosed(s) => Chain(w) \subseteq s
    BY DEF Chain
  <1>3. ASSUME NEW v \in Chain(w), up[v] # None
        PROVE  up[v] \in Chain(w)
    <2>1. up[v] \in Window
      BY <1>1, <1>3
    <2>2. ASSUME NEW s \in SUBSET Window, w \in s, UpClosed(s)
          PROVE  up[v] \in s
      BY <1>2, <1>3, <2>2 DEF UpClosed
    <2> QED
      BY <2>1, <2>2 DEF Chain
  <1>4. UpClosed(Chain(w))
    BY <1>3 DEF UpClosed
  <1> QED
    BY <1>1, <1>2, <1>4

\* A chain becomes no longer than a set that is closed after the step.
LEMMA ChainWithin ==
  ASSUME NEW w \in Window, NEW s \in SUBSET Window, w \in s, UpClosed(s)'
  PROVE  Chain(w)' \subseteq s
  BY DEF Chain

LEMMA SameChain ==
  ASSUME up' = up, NEW w
  PROVE  Chain(w)' = Chain(w)
  BY DEF Chain, UpClosed

LEMMA CachesUpFacts ==
  ASSUME TypeOK, NEW w \in Window
  PROVE  CachesUp(w) \subseteq Window
  <1>1. /\ up \in [Window -> Window \cup {None}]
        /\ gcache \in [Window -> Window \cup {None}]
    BY DEF TypeOK
  <1>2. Chain(w) \subseteq Window
    BY <1>1, ChainFacts
  <1> QED
    BY <1>1, <1>2 DEF CachesUp

\* What a window reaches when it has loaded a cache: what it reached before, or
\* a cache that is empty.
LEMMA Loading ==
  ASSUME IInv, NEW w \in open, LoadCache(w), UNCHANGED <<up, open, opened>>
  PROVE  /\ Loaded(w) \in Window
         /\ gcache' \in [Window -> Window \cup {None}]
         /\ gcache'[w] = Loaded(w)
         /\ \A v \in Window \ {w} : gcache'[v] = gcache[v]
         /\ gcache[w] # None => Loaded(w) = gcache[w]
         /\ \A v \in Window : \A c \in CachesUp(v)' :
              c \in CachesUp(v) \/ values[c] = << >>
         /\ CachesUp(w)' \subseteq Reached(w) \cup {Loaded(w)}
         /\ CachesMade'
  <1>1. /\ w \in Window /\ None \notin Window
        /\ up \in [Window -> Window \cup {None}]
        /\ gcache \in [Window -> Window \cup {None}]
        /\ open \subseteq opened /\ opened \subseteq Window
    BY CacheAssumption DEF IInv, TypeOK
  <1>2. \/ gcache[w] # None /\ Loaded(w) = gcache[w]
        \/ /\ gcache[w] = None /\ up[w] # None /\ gcache[up[w]] # None
           /\ Loaded(w) = gcache[up[w]]
        \/ gcache[w] = None /\ Loaded(w) = w
    BY DEF Loaded
  <1>3. Loaded(w) \in Window
    BY <1>1, <1>2
  <1>4. /\ gcache' \in [Window -> Window \cup {None}]
        /\ gcache'[w] = Loaded(w)
        /\ \A v \in Window \ {w} : gcache'[v] = gcache[v]
    BY <1>1, <1>3 DEF LoadCache
  <1>5. gcache[w] = None => values[w] = << >>
    BY <1>1 DEF IInv, CachesMade, EntriesUsed
  <1>6. ASSUME NEW v \in Window, NEW c \in CachesUp(v)'
        PROVE  c \in CachesUp(v) \/ values[c] = << >>
    <2>1. PICK x \in Chain(v) : c = gcache'[x] /\ c # None
      BY SameChain DEF CachesUp
    <2>2. Chain(v) \subseteq Window /\ UpClosed(Chain(v))
      BY <1>1, ChainFacts
    <2>3. CASE x # w
      BY <1>4, <2>1, <2>2, <2>3 DEF CachesUp
    <2>4. CASE x = w
      <3>1. c = Loaded(w) /\ w \in Chain(v)
        BY <1>4, <2>1, <2>4
      <3>2. CASE gcache[w] # None
        BY <1>2, <3>1, <3>2, <2>1 DEF CachesUp
      <3>3. CASE gcache[w] = None /\ Loaded(w) = w
        BY <1>5, <3>1, <3>3
      <3>4. CASE gcache[w] = None /\ up[w] # None /\ Loaded(w) = gcache[up[w]]
        <4>1. up[w] \in Chain(v)
          BY <2>2, <3>1, <3>4 DEF UpClosed
        <4> QED
          BY <2>1, <3>1, <3>4, <4>1 DEF CachesUp
      <3> QED
        BY <1>2, <3>2, <3>3, <3>4
    <2> QED
      BY <2>3, <2>4
  <1>7. CachesUp(w)' \subseteq Reached(w) \cup {Loaded(w)}
    <2> SUFFICES ASSUME NEW c \in CachesUp(w)'
                 PROVE  c \in Reached(w) \cup {Loaded(w)}
      OBVIOUS
    <2>1. PICK x \in Chain(w) : c = gcache'[x] /\ c # None
      BY SameChain DEF CachesUp
    <2>2. x \in Window
      BY <1>1, ChainFacts
    <2> QED
      BY <1>4, <2>1, <2>2 DEF Reached
  <1>8. CachesMade'
    <2> SUFFICES ASSUME NEW v \in Window, gcache'[v] # None
                 PROVE  /\ gcache'[v] \in opened
                        /\ gcache'[v] \in open
                           => gcache'[gcache'[v]] = gcache'[v]
      BY DEF CachesMade
    <2>1. ASSUME NEW x \in Window, gcache[x] # None
          PROVE  /\ gcache[x] \in opened
                 /\ gcache[x] \in open => gcache'[gcache[x]] = gcache[x]
      <3>1. gcache[x] \in opened
            /\ (gcache[x] \in open => gcache[gcache[x]] = gcache[x])
        BY <2>1 DEF IInv, CachesMade
      <3>2. CASE gcache[x] = w
        BY <1>1, <1>2, <1>4, <3>1, <3>2
      <3>3. CASE gcache[x] # w
        BY <1>1, <1>4, <3>1, <3>3
      <3> QED
        BY <3>2, <3>3
    <2>2. CASE v # w
      BY <1>4, <2>1, <2>2
    <2>3. CASE v = w /\ Loaded(w) = w
      BY <1>1, <1>4, <2>3
    <2>4. CASE v = w /\ gcache[w] # None /\ Loaded(w) = gcache[w]
      BY <1>1, <1>4, <2>1, <2>4
    <2>5. CASE /\ v = w /\ up[w] # None /\ gcache[up[w]] # None
               /\ Loaded(w) = gcache[up[w]]
      BY <1>1, <1>4, <2>1, <2>5
    <2> QED
      BY <1>2, <2>2, <2>3, <2>4, <2>5
  <1> QED
    BY <1>2, <1>3, <1>4, <1>6, <1>7, <1>8

\* The two properties, in terms of lists of entries.
LEMMA Forgotten ==
  /\ SavesForgotten <=>
       \A w \in open :
         /\ gcache[w] # None => NoneBefore(values[gcache[w]], "READ", known[w].own)
         /\ \A c \in CachesUp(w) : NoneBefore(values[c], "READ", known[w].saved)
  /\ SelectionsRefreshed <=>
       \A w \in open : \A c \in CachesUp(w) :
         NoneBefore(values[c], "SELECT", known[w].listed)
  BY DEF SavesForgotten, SelectionsRefreshed, NoneOlder, NoneBefore

LEMMA ForgottenNext ==
  /\ SavesForgotten' <=>
       \A w \in open' :
         /\ gcache'[w] # None
              => NoneBefore(values'[gcache'[w]], "READ", known'[w].own)
         /\ \A c \in CachesUp(w)' : NoneBefore(values'[c], "READ", known'[w].saved)
  /\ SelectionsRefreshed' <=>
       \A w \in open' : \A c \in CachesUp(w)' :
         NoneBefore(values'[c], "SELECT", known'[w].listed)
  BY DEF SavesForgotten, SelectionsRefreshed, NoneOlder, NoneBefore

\* A window that reaches no other entries than before, or has not written yet.
LEMMA Keeping ==
  ASSUME IInv, TypeOK',
         \A c \in Window : Some(values'[c], values[c]),
         \A w \in open' :
           /\ known'[w] = known[w]
           /\ \/ known[w] = Unknown
              \/ /\ w \in open
                 /\ gcache'[w] = gcache[w] \/ known[w].own = Fresh
                 /\ \A c \in CachesUp(w)' :
                      c \in CachesUp(w) \/ values[c] = << >>
  PROVE  SavesForgotten' /\ SelectionsRefreshed'
  <1>1. /\ open' \subseteq Window /\ values' \in [Window -> Seq(Entry)]
        /\ gcache' \in [Window -> Window \cup {None}]
    BY DEF TypeOK
  <1>2. ASSUME NEW w \in Window
        PROVE  CachesUp(w)' \subseteq Window
    <2>1. Chain(w)' \subseteq Window
      BY DEF Chain
    <2> QED
      BY <1>1, <2>1 DEF CachesUp
  <1>3. SavesForgotten /\ SelectionsRefreshed
    BY DEF IInv
  <1>4. Unknown.own = Fresh /\ Unknown.saved = Fresh /\ Unknown.listed = Fresh
    BY DEF Unknown
  <1>5. ASSUME NEW w \in open', NEW c \in CachesUp(w)'
        PROVE  /\ NoneBefore(values'[c], "READ", known'[w].saved)
               /\ NoneBefore(values'[c], "SELECT", known'[w].listed)
    <2>1. c \in Window /\ values'[c] \in Seq(Entry)
      BY <1>1, <1>2
    <2>2. CASE known[w] = Unknown
      BY <1>4, <2>1, <2>2, FreshEntries
    <2>3. CASE w \in open /\ c \in CachesUp(w)
      <3>1. /\ NoneBefore(values[c], "READ", known[w].saved)
            /\ NoneBefore(values[c], "SELECT", known[w].listed)
        BY <1>3, <2>3, Forgotten
      <3> QED
        BY <2>1, <3>1, SomeKeep
    <2>4. CASE values[c] = << >>
      <3>1. /\ NoneBefore(values[c], "READ", known[w].saved)
            /\ NoneBefore(values[c], "SELECT", known[w].listed)
        BY <2>4, EmptyEntries
      <3> QED
        BY <2>1, <3>1, SomeKeep
    <2> QED
      BY <2>2, <2>3, <2>4
  <1>6. ASSUME NEW w \in open', gcache'[w] # None
        PROVE  NoneBefore(values'[gcache'[w]], "READ", known'[w].own)
    <2>1. gcache'[w] \in Window /\ values'[gcache'[w]] \in Seq(Entry)
      BY <1>1, <1>6
    <2>2. CASE known[w].own = Fresh
      BY <2>1, <2>2, FreshEntries
    <2>3. CASE known[w] = Unknown
      BY <1>4, <2>2, <2>3
    <2>4. CASE w \in open /\ gcache'[w] = gcache[w]
      <3>1. NoneBefore(values[gcache[w]], "READ", known[w].own)
        BY <1>3, <1>6, <2>4, Forgotten
      <3> QED
        BY <2>1, <2>4, <3>1, SomeKeep
    <2> QED
      BY <2>2, <2>3, <2>4
  <1> QED
    BY <1>5, <1>6, ForgottenNext

-----------------------------------------------------------------------------
(* Steps                                                                   *)

LEMMA AllNamed ==
  ASSUME IInv, \A c \in Window : /\ Some(values'[c], values[c])
                               /\ OneOfEachName(values'[c])
  PROVE  EntriesNamed'
  BY SomeKeep DEF IInv, EntriesNamed

LEMMA Asking ==
  ASSUME TypeOK, NEW w \in Window, NEW key \in Key \cup {None},
         NEW kind \in {"READ", "SELECT", "INDEX", "SAVE", "CLOSE", "DELETE"},
         key = None <=> kind \in {"SELECT", "INDEX"},
         kind \in {"SAVE", "CLOSE", "DELETE"} => records[key].version < MaxWrites,
         Ask(w, kind, key)
  PROVE  /\ records' \in [Key -> [version : 0..MaxWrites, exists : BOOLEAN]]
         /\ asked' \in [Window -> Asked \cup {None}]
         /\ \A v \in Window \ {w} : asked'[v] = asked[v]
  <1>1. /\ records \in [Key -> [version : 0..MaxWrites, exists : BOOLEAN]]
        /\ asked \in [Window -> Asked \cup {None}] /\ MaxWrites \in Nat
    BY CacheAssumption DEF TypeOK
  <1>2. records' \in [Key -> [version : 0..MaxWrites, exists : BOOLEAN]]
    <2>1. CASE kind \in {"SAVE", "CLOSE", "DELETE"}
      <3> DEFINE one == [version |-> records[key].version + 1,
                         exists |-> kind # "DELETE"]
      <3>1. records' = [records EXCEPT ![key] = one]
        BY <2>1 DEF Ask
      <3>2. one \in [version : 0..MaxWrites, exists : BOOLEAN]
        <4>1. records[key].version \in 0..MaxWrites
          BY <1>1, <2>1
        <4> QED
          BY <1>1, <2>1, <4>1
      <3> HIDE DEF one
      <3> QED
        BY <1>1, <3>1, <3>2
    <2>2. CASE kind \notin {"SAVE", "CLOSE", "DELETE"}
      BY <1>1, <2>2 DEF Ask
    <2> QED
      BY <2>1, <2>2
  <1> DEFINE q == [kind |-> kind, key |-> key,
                   versions |-> [k \in Key |-> records'[k].version],
                   exists |-> key = None \/ records'[key].exists]
  <1>3. q \in Asked
    <2>1. [k \in Key |-> records'[k].version] \in Contents
      BY <1>2 DEF Contents
    <2>2. (key = None \/ records'[key].exists) \in BOOLEAN
      OBVIOUS
    <2> QED
      BY <2>1, <2>2 DEF Asked
  <1>4. asked' = [asked EXCEPT ![w] = q]
    BY DEF Ask
  <1> HIDE DEF q
  <1> QED
    BY <1>1, <1>2, <1>3, <1>4

LEMMA OpenWindowIInv ==
  ASSUME IInv, NEW w \in Window, NEW o \in Window, OpenWindow(w, o)
  PROVE  IInv'
  <1>1. /\ TypeOK /\ ClosedHasNothing /\ None \notin Window
        /\ up \in [Window -> Window \cup {None}]
        /\ w \notin opened /\ o \in open /\ w \notin open
        /\ open \subseteq opened /\ opened \subseteq Window
        /\ open' = open \cup {w} /\ opened' = opened \cup {w}
        /\ up' = [up EXCEPT ![w] = o]
        /\ UNCHANGED <<records, gcache, values, asked, known>>
    BY CacheAssumption DEF IInv, TypeOK, OpenWindow
  <1>2. TypeOK'
    BY <1>1 DEF TypeOK, OpenWindow
  <1>3. EntriesNamed' /\ WriterHasCache'
    BY <1>1 DEF IInv, EntriesNamed, WriterHasCache
  <1>4. ClosedHasNothing'
    BY <1>1 DEF ClosedHasNothing
  <1>5. CachesMade'
    BY <1>1 DEF IInv, CachesMade
  <1>6. EntriesUsed'
    BY <1>1 DEF IInv, EntriesUsed
  <1>7. ASSUME NEW v \in open
        PROVE  CachesUp(v)' \subseteq CachesUp(v)
    <2> DEFINE s == {x \in Chain(v) : x # w}
    <2>1. /\ Chain(v) \subseteq Window /\ v \in Chain(v) /\ v \in Window
          /\ UpClosed(Chain(v))
      BY <1>1, ChainFacts
    <2>2. PICK t \in SUBSET Window : t = s
      BY <2>1
    <2> HIDE DEF s
    <2>3. /\ v \in t /\ t \subseteq Chain(v)
          /\ \A x \in t : up'[x] # None => up'[x] \in t
      BY <1>1, <2>1, <2>2 DEF s, ClosedHasNothing, UpClosed
    <2>4. UpClosed(t)'
      BY <2>3 DEF UpClosed
    <2>5. Chain(v)' \subseteq Chain(v)
      BY <1>1, <2>1, <2>3, <2>4, ChainWithin
    <2> QED
      BY <1>1, <2>5 DEF CachesUp
  <1>8. SavesForgotten' /\ SelectionsRefreshed'
    BY <1>1, <1>2, <1>7, Keeping, SameEntries DEF ClosedHasNothing
  <1> QED
    BY <1>2, <1>3, <1>4, <1>5, <1>6, <1>8 DEF IInv

LEMMA CloseWindowIInv ==
  ASSUME IInv, NEW w \in Window, CloseWindow(w)
  PROVE  IInv'
  <1>1. /\ TypeOK /\ ClosedHasNothing /\ None \notin Window
        /\ up \in [Window -> Window \cup {None}]
        /\ framed \in [Window -> BOOLEAN]
        /\ gcache \in [Window -> Window \cup {None}]
        /\ values \in [Window -> Seq(Entry)]
        /\ asked \in [Window -> Asked \cup {None}]
        /\ known \in [Window -> [own : Contents, saved : Contents, listed : Contents]]
        /\ w \in open
        /\ open \subseteq opened /\ opened \subseteq Window
        /\ open' = open \ {w} /\ opened' = opened /\ records' = records
    BY CacheAssumption DEF IInv, TypeOK, CloseWindow
  <1>2. Fresh \in Contents /\ Unknown.own = Fresh /\ Unknown.saved = Fresh
        /\ Unknown \in [own : Contents, saved : Contents, listed : Contents]
    BY CacheAssumption DEF Fresh, Unknown, Contents
  <1>3. /\ up' \in [Window -> Window \cup {None}]
        /\ framed' \in [Window -> BOOLEAN]
        /\ gcache' \in [Window -> Window \cup {None}]
        /\ asked' \in [Window -> Asked \cup {None}]
        /\ known' \in [Window -> [own : Contents, saved : Contents, listed : Contents]]
    BY <1>1, <1>2 DEF CloseWindow
  <1>4. /\ up'[w] = None /\ gcache'[w] = None /\ asked'[w] = None
        /\ known'[w] = Unknown
        /\ \A v \in Window \ {w} :
             /\ gcache'[v] = gcache[v] /\ asked'[v] = asked[v]
             /\ known'[v] = known[v]
             /\ up'[v] = IF up[v] = w THEN None ELSE up[v]
    BY <1>1, <1>2 DEF CloseWindow
  <1>5. \A c \in Window : \/ values'[c] = << >>
                           \/ /\ values'[c] = values[c]
                              /\ \E v \in open' : gcache'[v] = c
    BY <1>1, <1>4 DEF CloseWindow
  <1>6. values' \in [Window -> Seq(Entry)]
    BY <1>1, EmptyEntries DEF CloseWindow
  <1>7. TypeOK'
    BY <1>1, <1>3, <1>6 DEF TypeOK
  <1>8. \A c \in Window : Some(values'[c], values[c])
    BY <1>5, EmptyEntries, SameEntries
  <1>9. EntriesNamed'
    BY <1>5, <1>8, AllNamed, EmptyEntries DEF IInv, EntriesNamed
  <1>10. ClosedHasNothing'
    BY <1>1, <1>4 DEF ClosedHasNothing
  <1>11. CachesMade'
    <2> SUFFICES ASSUME NEW v \in Window, gcache'[v] # None
                 PROVE  /\ gcache'[v] \in opened'
                        /\ gcache'[v] \in open'
                           => gcache'[gcache'[v]] = gcache'[v]
      BY DEF CachesMade
    <2>1. v # w /\ gcache'[v] = gcache[v] /\ gcache[v] \in Window
      BY <1>1, <1>4
    <2>2. /\ gcache[v] \in opened
          /\ gcache[v] \in open => gcache[gcache[v]] = gcache[v]
      BY <2>1 DEF IInv, CachesMade
    <2> QED
      BY <1>1, <1>4, <2>1, <2>2
  <1>12. EntriesUsed'
    BY <1>5 DEF EntriesUsed
  <1>13. WriterHasCache'
    BY <1>1, <1>2, <1>4 DEF IInv, WriterHasCache
  <1>14. ASSUME NEW v \in open'
         PROVE  CachesUp(v)' \subseteq CachesUp(v)
    <2>1. /\ Chain(v) \subseteq Window /\ v \in Chain(v) /\ v \in Window
          /\ UpClosed(Chain(v))
      BY <1>1, ChainFacts
    <2>2. \A x \in Chain(v) : up'[x] # None => up'[x] \in Chain(v)
      BY <1>1, <1>4, <2>1 DEF UpClosed
    <2>3. PICK t \in SUBSET Window : t = Chain(v)
      BY <2>1
    <2>4. UpClosed(t)'
      BY <2>2, <2>3 DEF UpClosed
    <2>5. Chain(v)' \subseteq Chain(v)
      BY <2>1, <2>3, <2>4, ChainWithin
    <2>6. \A x \in Window : gcache'[x] \in {gcache[x], None}
      BY <1>4
    <2> QED
      BY <2>1, <2>5, <2>6 DEF CachesUp
  <1>15. SavesForgotten' /\ SelectionsRefreshed'
    <2>1. \A v \in open' : /\ v \in open /\ known'[v] = known[v]
                           /\ gcache'[v] = gcache[v]
      BY <1>1, <1>4
    <2> QED
      BY <1>7, <1>8, <1>14, <2>1, Keeping
  <1> QED
    BY <1>7, <1>9, <1>10, <1>11, <1>12, <1>13, <1>15 DEF IInv

\* A step of a window that loads its cache, and puts nothing in.
LEMMA LoadingIInv ==
  ASSUME IInv, NEW w \in open, LoadCache(w),
         UNCHANGED <<up, framed, open, opened, known>>,
         records' \in [Key -> [version : 0..MaxWrites, exists : BOOLEAN]],
         asked' \in [Window -> Asked \cup {None}],
         \A v \in Window \ {w} : asked'[v] = asked[v],
         values' \in [Window -> Seq(Entry)],
         \A c \in Window : values'[c] \in {values[c], << >>}
  PROVE  IInv'
  <1>1. /\ TypeOK /\ w \in Window /\ open \subseteq Window
        /\ known \in [Window -> [own : Contents, saved : Contents, listed : Contents]]
    BY DEF IInv, TypeOK
  <1>2. /\ gcache' \in [Window -> Window \cup {None}]
        /\ \A v \in Window \ {w} : gcache'[v] = gcache[v]
        /\ gcache[w] # None => gcache'[w] = gcache[w]
        /\ \A v \in Window : \A c \in CachesUp(v)' :
             c \in CachesUp(v) \/ values[c] = << >>
        /\ CachesMade' /\ gcache'[w] \in Window
    BY Loading
  <1>3. TypeOK'
    BY <1>1, <1>2 DEF TypeOK
  <1>4. \A c \in Window : Some(values'[c], values[c])
    BY EmptyEntries, SameEntries
  <1>5. EntriesNamed'
    BY <1>4, AllNamed, EmptyEntries DEF IInv, EntriesNamed
  <1>6. ClosedHasNothing'
    BY <1>1, <1>2 DEF IInv, ClosedHasNothing
  <1>7. EntriesUsed'
    <2> SUFFICES ASSUME NEW c \in Window, values'[c] # << >>
                 PROVE  \E v \in open : gcache'[v] = c
      BY DEF EntriesUsed
    <2>1. PICK v \in open : gcache[v] = c
      BY DEF IInv, EntriesUsed
    <2> QED
      BY <1>1, <1>2, <2>1, CacheAssumption
  <1>8. WriterHasCache'
    BY <1>1, <1>2, CacheAssumption DEF IInv, WriterHasCache
  <1>9. SavesForgotten' /\ SelectionsRefreshed'
    <2>1. \A v \in open : gcache'[v] = gcache[v] \/ known[v].own = Fresh
      BY <1>1, <1>2 DEF IInv, WriterHasCache
    <2>2. \A v \in open :
            /\ known'[v] = known[v]
            /\ \A c \in CachesUp(v)' : c \in CachesUp(v) \/ values[c] = << >>
      BY <1>1, <1>2
    <2> QED
      BY <1>3, <1>4, <2>1, <2>2, Keeping
  <1> QED
    BY <1>2, <1>3, <1>5, <1>6, <1>7, <1>8, <1>9 DEF IInv

\* A step of a window that loads no cache and puts nothing in.
LEMMA StayingIInv ==
  ASSUME IInv, NEW w \in open,
         UNCHANGED <<up, framed, open, opened, gcache, known>>,
         records' \in [Key -> [version : 0..MaxWrites, exists : BOOLEAN]],
         asked' \in [Window -> Asked \cup {None}],
         \A v \in Window \ {w} : asked'[v] = asked[v],
         values' \in [Window -> Seq(Entry)],
         \A c \in Window :
           /\ Some(values'[c], values[c]) /\ OneOfEachName(values'[c])
           /\ values[c] = << >> => values'[c] = << >>
  PROVE  IInv'
  <1>1. TypeOK'
    BY DEF IInv, TypeOK
  <1>2. EntriesNamed'
    BY AllNamed
  <1>3. ClosedHasNothing' /\ CachesMade' /\ EntriesUsed' /\ WriterHasCache'
    <2>1. w \in Window
      BY DEF IInv, TypeOK
    <2>2. ClosedHasNothing'
      BY DEF IInv, ClosedHasNothing
    <2>3. CachesMade'
      BY DEF IInv, CachesMade
    <2>4. EntriesUsed'
      BY DEF IInv, EntriesUsed
    <2>5. WriterHasCache'
      BY DEF IInv, WriterHasCache
    <2> QED
      BY <2>2, <2>3, <2>4, <2>5
  <1>4. SavesForgotten' /\ SelectionsRefreshed'
    <2>1. \A v \in open : CachesUp(v)' = CachesUp(v)
      BY SameChain DEF CachesUp
    <2> QED
      BY <1>1, <2>1, Keeping
  <1> QED
    BY <1>1, <1>2, <1>3, <1>4 DEF IInv

LEMMA OpenWindows ==
  ASSUME IInv
  PROVE  /\ open \subseteq Window /\ TypeOK
         /\ records \in [Key -> [version : 0..MaxWrites, exists : BOOLEAN]]
         /\ gcache \in [Window -> Window \cup {None}]
         /\ values \in [Window -> Seq(Entry)]
         /\ asked \in [Window -> Asked \cup {None}]
         /\ known \in [Window -> [own : Contents, saved : Contents, listed : Contents]]
         /\ \A c \in Window : OwnNames(values[c]) /\ OneOfEachName(values[c])
  BY DEF IInv, TypeOK, EntriesNamed

LEMMA AskReadIInv ==
  ASSUME IInv, NEW w \in Window, NEW k \in Key, AskRead(w, k)
  PROVE  IInv'
  <1>1. /\ w \in open /\ asked[w] = None
        /\ UNCHANGED <<up, framed, open, opened, values, known>>
    BY DEF AskRead
  <1>2. CASE LoadCache(w) /\ UNCHANGED <<records, asked>>
    BY <1>1, <1>2, OpenWindows, LoadingIInv
  <1>3. ASSUME Ask(w, "READ", k)
        PROVE  /\ records' \in [Key -> [version : 0..MaxWrites, exists : BOOLEAN]]
               /\ asked' \in [Window -> Asked \cup {None}]
               /\ \A v \in Window \ {w} : asked'[v] = asked[v]
    BY <1>3, OpenWindows, Asking, CacheAssumption
  <1>4. CASE LoadCache(w) /\ Ask(w, "READ", k)
    BY <1>1, <1>3, <1>4, OpenWindows, LoadingIInv
  <1>5. CASE UNCHANGED gcache /\ Ask(w, "READ", k)
    BY <1>1, <1>3, <1>5, OpenWindows, SameEntries, StayingIInv
  <1> QED
    BY <1>2, <1>4, <1>5 DEF AskRead

LEMMA AskListIInv ==
  ASSUME IInv, NEW w \in Window, NEW kind \in Lists, AskList(w, kind)
  PROVE  IInv'
  <1>1. /\ w \in open /\ LoadCache(w) /\ Ask(w, kind, None)
        /\ UNCHANGED <<up, framed, open, opened, values, known>>
        /\ kind \in {"SELECT", "INDEX"}
    BY CacheAssumption DEF AskList
  <1>2. /\ records' \in [Key -> [version : 0..MaxWrites, exists : BOOLEAN]]
        /\ asked' \in [Window -> Asked \cup {None}]
        /\ \A v \in Window \ {w} : asked'[v] = asked[v]
    BY <1>1, OpenWindows, Asking, CacheAssumption
  <1> QED
    BY <1>1, <1>2, OpenWindows, LoadingIInv

LEMMA AskWriteIInv ==
  ASSUME IInv, NEW w \in Window, NEW kind \in {"SAVE", "CLOSE", "DELETE"},
         NEW k \in Key, AskWrite(w, kind, k)
  PROVE  IInv'
  <1>1. /\ w \in open /\ Ask(w, kind, k) /\ records[k].version < MaxWrites
        /\ UNCHANGED <<up, framed, open, opened, gcache, values, known>>
    BY DEF AskWrite
  <1>2. /\ records' \in [Key -> [version : 0..MaxWrites, exists : BOOLEAN]]
        /\ asked' \in [Window -> Asked \cup {None}]
        /\ \A v \in Window \ {w} : asked'[v] = asked[v]
    BY <1>1, OpenWindows, Asking, CacheAssumption
  <1> QED
    BY <1>1, <1>2, OpenWindows, SameEntries, StayingIInv

LEMMA TrimCacheIInv ==
  ASSUME IInv, NEW w \in Window, TrimCache(w)
  PROVE  IInv'
  <1> DEFINE trimmed == Trimmed(values[gcache[w]])
  <1>1. /\ w \in open /\ gcache[w] \in Window
        /\ Len(values[gcache[w]]) > MaxEntries
        /\ values' = [values EXCEPT ![gcache[w]] = trimmed]
        /\ UNCHANGED <<records, up, framed, open, opened, gcache, asked, known>>
    BY OpenWindows DEF TrimCache
  <1>2. /\ trimmed \in Seq(Entry) /\ OneOfEachName(trimmed)
        /\ Some(trimmed, values[gcache[w]])
    BY <1>1, OpenWindows, TrimmedEntries
  <1>3. values[gcache[w]] # << >>
    BY <1>1, CacheAssumption
  <1> HIDE DEF trimmed
  <1>4. /\ values' \in [Window -> Seq(Entry)]
        /\ \A c \in Window :
             /\ Some(values'[c], values[c]) /\ OneOfEachName(values'[c])
             /\ values[c] = << >> => values'[c] = << >>
    BY <1>1, <1>2, <1>3, OpenWindows, SameEntries
  <1> QED
    BY <1>1, <1>4, OpenWindows, StayingIInv

LEMMA ClearCacheIInv ==
  ASSUME IInv, NEW w \in Window, ClearCache(w)
  PROVE  IInv'
  <1>1. /\ w \in open /\ LoadCache(w)
        /\ values' = [values EXCEPT ![Loaded(w)] = << >>]
        /\ UNCHANGED <<records, up, framed, open, opened, asked, known>>
    BY DEF ClearCache
  <1>2. /\ values' \in [Window -> Seq(Entry)]
        /\ \A c \in Window : values'[c] \in {values[c], << >>}
    BY <1>1, OpenWindows, EmptyEntries
  <1> QED
    BY <1>1, <1>2, OpenWindows, LoadingIInv

LEMMA PutBefore ==
  ASSUME NEW entries \in Seq(Entry), OneOfEachName(entries), NEW e \in Entry,
         NEW kind, NEW written, NoneBefore(entries, kind, written),
         \A k \in Key :
           e.request.kind = kind /\ e.request.key \in {k, None} /\ ~e.late
             => e.versions[k] >= written[k]
  PROVE  NoneBefore(Put(entries, e), kind, written)
  <1> DEFINE all == Put(entries, e)
  <1>1. \A i \in DOMAIN all : \/ all[i] = e
                             \/ \E j \in DOMAIN entries : all[i] = entries[j]
    BY PutEntries
  <1> HIDE DEF all
  <1>2. NoneBefore(all, kind, written)
    BY <1>1 DEF NoneBefore
  <1> QED
    BY <1>2 DEF all

\* What a window that has loaded its cache reaches is not older than what it
\* knows.
LEMMA LoadedForgotten ==
  ASSUME IInv, NEW w \in open, LoadCache(w), UNCHANGED <<up, open, opened>>,
         NEW v \in open
  PROVE  /\ gcache'[v] # None
              => NoneBefore(values[gcache'[v]], "READ", known[v].own)
         /\ \A c \in CachesUp(v)' :
              /\ c \in Window
              /\ NoneBefore(values[c], "READ", known[v].saved)
              /\ NoneBefore(values[c], "SELECT", known[v].listed)
  <1>1. /\ gcache' \in [Window -> Window \cup {None}]
        /\ \A x \in Window \ {w} : gcache'[x] = gcache[x]
        /\ gcache[w] # None => gcache'[w] = gcache[w]
        /\ \A c \in CachesUp(v)' : c \in CachesUp(v) \/ values[c] = << >>
        /\ w \in Window /\ v \in Window /\ values \in [Window -> Seq(Entry)]
    BY Loading, OpenWindows
  <1>2. SavesForgotten /\ SelectionsRefreshed
    BY DEF IInv
  <1>3. ASSUME NEW c \in CachesUp(v)'
        PROVE  /\ c \in Window
               /\ NoneBefore(values[c], "READ", known[v].saved)
               /\ NoneBefore(values[c], "SELECT", known[v].listed)
    <2>1. c \in Window
      <3>1. Chain(v)' \subseteq Window
        BY DEF Chain
      <3> QED
        BY <1>1, <3>1 DEF CachesUp
    <2> QED
      BY <1>1, <1>2, <2>1, Forgotten, EmptyEntries
  <1>4. ASSUME gcache'[v] # None
        PROVE  NoneBefore(values[gcache'[v]], "READ", known[v].own)
    <2>1. CASE gcache'[v] = gcache[v]
      BY <1>2, <1>4, <2>1, Forgotten
    <2>2. CASE v = w /\ gcache[w] = None
      <3>1. known[v].own = Fresh /\ values[gcache'[v]] \in Seq(Entry)
        BY <1>1, <1>4, <2>2 DEF IInv, WriterHasCache
      <3> QED
        BY <3>1, FreshEntries
    <2> QED
      BY <1>1, <2>1, <2>2
  <1> QED
    BY <1>3, <1>4

\* A step that does not open or close windows, and leaves entries only in
\* caches that windows have.
LEMMA OtherParts ==
  ASSUME IInv, NEW w \in open, UNCHANGED <<up, open>>,
         \A v \in Window \ {w} : /\ gcache'[v] = gcache[v]
                                /\ asked'[v] = asked[v] /\ known'[v] = known[v],
         gcache[w] # None => gcache'[w] = gcache[w],
         \A c \in Window : values'[c] # << >> => values[c] # << >> \/ gcache'[w] = c,
         gcache'[w] = None => known'[w].own = known[w].own
  PROVE  ClosedHasNothing' /\ EntriesUsed' /\ WriterHasCache'
  <1>1. open \subseteq Window /\ None \notin Window
    BY OpenWindows, CacheAssumption
  <1>2. ClosedHasNothing'
    BY <1>1 DEF IInv, ClosedHasNothing
  <1>3. EntriesUsed'
    <2> SUFFICES ASSUME NEW c \in Window, values'[c] # << >>
                 PROVE  \E v \in open : gcache'[v] = c
      BY DEF EntriesUsed
    <2>1. CASE gcache'[w] = c
      BY <2>1
    <2>2. CASE values[c] # << >>
      <3>1. PICK v \in open : gcache[v] = c
        BY <2>2 DEF IInv, EntriesUsed
      <3> QED
        BY <1>1, <3>1
    <2> QED
      BY <2>1, <2>2
  <1>4. WriterHasCache'
    <2>1. WriterHasCache
      BY DEF IInv
    <2> QED
      BY <1>1, <2>1 DEF WriterHasCache
  <1> QED
    BY <1>2, <1>3, <1>4

LEMMA AnswerQueryIInv ==
  ASSUME IInv, NEW w \in Window, AnswerQuery(w)
  PROVE  IInv'
  <1> DEFINE q == asked[w]
             request == [kind |-> q.kind, key |-> q.key]
             c == Loaded(w)
             keys == IF q.key = None THEN Key ELSE {q.key}
             late == IsLate([gcache EXCEPT ![w] = c], c, keys, q.versions)
             e == [name |-> CacheKey[request], request |-> request,
                   versions |-> [k \in Key |-> IF k \in keys THEN q.versions[k] ELSE 0],
                   late |-> late]
  <1>1. /\ w \in open /\ q # None /\ q.kind \in {"READ", "SELECT", "INDEX"}
        /\ asked' = [asked EXCEPT ![w] = None]
        /\ UNCHANGED <<records, up, framed, open, opened, known>>
    BY DEF AnswerQuery, Answered
  <1>2. /\ asked' \in [Window -> Asked \cup {None}]
        /\ \A v \in Window \ {w} : asked'[v] = asked[v]
        /\ q \in Asked
    BY <1>1, OpenWindows
  <1>3. CASE ~q.exists
    <2>1. UNCHANGED <<gcache, values>>
      BY <1>3 DEF AnswerQuery
    <2> QED
      BY <1>1, <1>2, <2>1, OpenWindows, SameEntries, StayingIInv
  <1>4. CASE q.exists
    <2>1. LoadCache(w) /\ values' = [values EXCEPT ![c] = Put(values[c], e)]
      <3>1. c \in Window
        BY <1>1, OpenWindows, CacheAssumption DEF Loaded, IInv, TypeOK
      <3> QED
        BY <1>4 DEF AnswerQuery
    <2>2. /\ gcache' \in [Window -> Window \cup {None}]
          /\ c \in Window /\ gcache'[w] = c
          /\ \A v \in Window \ {w} : gcache'[v] = gcache[v]
          /\ gcache[w] # None => gcache'[w] = gcache[w]
          /\ gcache' = [gcache EXCEPT ![w] = c]
          /\ CachesMade'
      BY <1>1, <2>1, Loading DEF LoadCache
    <2>3. /\ request \in Request /\ CacheKey[request] \in Request
          /\ q.versions \in Contents
      BY <1>1, <1>2, CacheAssumption DEF Asked, Request
    <2>4. e \in Entry
      <3>1. [k \in Key |-> IF k \in keys THEN q.versions[k] ELSE 0] \in Contents
        BY <2>3, CacheAssumption DEF Contents
      <3>2. late \in BOOLEAN
        BY DEF IsLate
      <3> HIDE DEF request, keys, late
      <3> QED
        BY <2>3, <3>1, <3>2 DEF Entry
    <2>5. /\ e.name = CacheKey[e.request] /\ e.request.key = q.key
          /\ \A k \in Key :
               e.request.key \in {k, None}
                 => k \in keys /\ e.versions[k] = q.versions[k]
          /\ e.late = late
      OBVIOUS
    <2>6. ASSUME NEW v \in open, NEW k \in Key, e.request.key \in {k, None}, ~e.late,
                 NEW way \in {"own", "saved", "listed"},
                 \E x \in Chain(v) : gcache'[x] = c
          PROVE  e.versions[k] >= known[v][way][k]
      <3>1. ~(q.versions[k] < known[v][way][k])
        <4>1. k \in keys /\ ~late
          BY <2>5, <2>6
        <4>2. way \in DOMAIN Unknown
          BY DEF Unknown
        <4> HIDE DEF keys, c
        <4> QED
          BY <2>2, <2>6, <4>1, <4>2 DEF late, IsLate
      <3>2. q.versions[k] \in Int /\ known[v][way][k] \in Int
        <4>1. known[v] \in [own : Contents, saved : Contents, listed : Contents]
          BY OpenWindows
        <4> QED
          BY <2>3, <4>1, CacheAssumption DEF Contents
      <3> QED
        BY <2>5, <2>6, <3>1, <3>2
    <2> HIDE DEF e, c
    <2>7. /\ Put(values[c], e) \in Seq(Entry)
          /\ OneOfEachName(Put(values[c], e)) /\ OwnNames(Put(values[c], e))
      <3>1. values[c] \in Seq(Entry) /\ OneOfEachName(values[c])
            /\ OwnNames(values[c])
        BY <2>2, OpenWindows
      <3>2. /\ Put(values[c], e) \in Seq(Entry)
            /\ OneOfEachName(Put(values[c], e))
            /\ \A i \in DOMAIN Put(values[c], e) :
                 \/ Put(values[c], e)[i] = e
                 \/ \E j \in DOMAIN values[c] :
                      Put(values[c], e)[i] = values[c][j]
        BY <2>4, <3>1, PutEntries
      <3> QED
        BY <2>5, <3>1, <3>2 DEF OwnNames
    <2>8. /\ values' \in [Window -> Seq(Entry)]
          /\ values'[c] = Put(values[c], e)
          /\ \A d \in Window \ {c} : values'[d] = values[d]
      BY <2>1, <2>2, <2>7, OpenWindows
    <2>9. TypeOK'
      <3>1. TypeOK
        BY OpenWindows
      <3> QED
        BY <1>1, <1>2, <2>2, <2>8, <3>1 DEF TypeOK
    <2>10. EntriesNamed'
      BY <2>7, <2>8, OpenWindows DEF EntriesNamed
    <2>11. ClosedHasNothing' /\ EntriesUsed' /\ WriterHasCache'
      BY <1>1, <1>2, <2>2, <2>8, OtherParts
    <2>12. ASSUME NEW v \in open, NEW d \in Window,
                  NEW kind \in {"READ", "SELECT"},
                  NEW way \in {"own", "saved", "listed"},
                  d = c => \E x \in Chain(v) : gcache'[x] = c,
                  NoneBefore(values[d], kind, known[v][way])
           PROVE  NoneBefore(values'[d], kind, known[v][way])
      <3>1. CASE d # c
        BY <2>8, <2>12, <3>1
      <3>2. CASE d = c
        <4>1. \A k \in Key :
                e.request.kind = kind /\ e.request.key \in {k, None} /\ ~e.late
                  => e.versions[k] >= known[v][way][k]
          BY <2>6, <2>12, <3>2
        <4>2. values[c] \in Seq(Entry) /\ OneOfEachName(values[c])
          BY <2>2, OpenWindows
        <4> QED
          BY <2>4, <2>8, <2>12, <3>2, <4>1, <4>2, PutBefore
      <3> QED
        BY <3>1, <3>2
    <2>13. ASSUME NEW v \in open
           PROVE  /\ gcache'[v] # None
                       => NoneBefore(values'[gcache'[v]], "READ", known[v].own)
                  /\ \A d \in CachesUp(v)' :
                       /\ NoneBefore(values'[d], "READ", known[v].saved)
                       /\ NoneBefore(values'[d], "SELECT", known[v].listed)
      <3>1. /\ gcache'[v] # None
                  => NoneBefore(values[gcache'[v]], "READ", known[v].own)
            /\ \A d \in CachesUp(v)' :
                 /\ d \in Window
                 /\ NoneBefore(values[d], "READ", known[v].saved)
                 /\ NoneBefore(values[d], "SELECT", known[v].listed)
        BY <1>1, <2>1, LoadedForgotten
      <3>2. v \in Window /\ v \in Chain(v) /\ Chain(v)' = Chain(v)
        <4>1. v \in Window /\ up \in [Window -> Window \cup {None}]
          BY OpenWindows DEF TypeOK
        <4> QED
          BY <1>1, <4>1, ChainFacts, SameChain
      <3>3. ASSUME gcache'[v] # None
            PROVE  NoneBefore(values'[gcache'[v]], "READ", known[v]["own"])
        <4>1. gcache'[v] \in Window
              /\ (gcache'[v] = c => \E x \in Chain(v) : gcache'[x] = c)
          BY <2>2, <3>2, <3>3
        <4>2. NoneBefore(values[gcache'[v]], "READ", known[v]["own"])
          BY <3>1, <3>3
        <4> QED
          BY <2>12, <4>1, <4>2
      <3>4. ASSUME NEW d \in CachesUp(v)'
            PROVE  /\ NoneBefore(values'[d], "READ", known[v]["saved"])
                   /\ NoneBefore(values'[d], "SELECT", known[v]["listed"])
        <4>1. d \in Window /\ (d = c => \E x \in Chain(v) : gcache'[x] = c)
          BY <3>1, <3>2 DEF CachesUp
        <4>2. /\ NoneBefore(values[d], "READ", known[v]["saved"])
              /\ NoneBefore(values[d], "SELECT", known[v]["listed"])
          BY <3>1
        <4> QED
          BY <2>12, <4>1, <4>2
      <3> QED
        BY <3>3, <3>4
    <2>14. SavesForgotten' /\ SelectionsRefreshed'
      BY <1>1, <2>13, ForgottenNext
    <2> QED
      BY <2>2, <2>9, <2>10, <2>11, <2>14 DEF IInv
  <1> QED
    BY <1>3, <1>4, <1>2

\* What an answer to a write leaves: fewer entries, and none of the requests
\* that it is about.
LEMMA WroteType ==
  ASSUME IInv, NEW w \in open, NEW k \in Key, Answered(w), asked[w].key = k
  PROVE  /\ asked' \in [Window -> Asked \cup {None}]
         /\ \A v \in Window \ {w} : asked'[v] = asked[v]
         /\ asked[w].versions[k] \in 0..MaxWrites
  <1>1. asked[w] \in Asked /\ asked' = [asked EXCEPT ![w] = None]
    BY OpenWindows DEF Answered
  <1>2. asked[w].versions \in Contents
    BY <1>1 DEF Asked
  <1> QED
    BY <1>1, <1>2, OpenWindows DEF Contents

LEMMA WriteOfKey ==
  ASSUME IInv, NEW w \in open, asked[w] # None,
         asked[w].kind \in {"SAVE", "CLOSE", "DELETE"}
  PROVE  asked[w].key \in Key
  <1>1. asked[w] \in Asked
    BY OpenWindows
  <1> QED
    BY <1>1 DEF Asked

LEMMA WrittenContents ==
  ASSUME NEW was \in Contents, NEW k \in Key, NEW n \in 0..MaxWrites
  PROVE  /\ [was EXCEPT ![k] = n] \in Contents
         /\ \A key \in Key \ {k} : [was EXCEPT ![k] = n][key] = was[key]
  BY DEF Contents

LEMMA AnswerSaveIInv ==
  ASSUME IInv, NEW w \in Window, AnswerSave(w)
  PROVE  IInv'
  <1> DEFINE k == asked[w].key
             n == asked[w].versions[k]
             c == Loaded(w)
             reached == Reached(w) \cup {c}
  <1>1. /\ w \in open /\ asked[w] # None /\ asked[w].kind = "SAVE"
        /\ Answered(w) /\ LoadCache(w)
        /\ UNCHANGED <<records, up, framed, open, opened>>
        /\ values' = [d \in Window |->
                        IF d \in reached THEN PrunedBySave(Forget(w, k)[d], k)
                        ELSE Forget(w, k)[d]]
        /\ known' = [known EXCEPT ![w].own[k] = n, ![w].saved[k] = n,
                                  ![w].listed[k] = n]
    BY DEF AnswerSave, Answered
  <1>2. k \in Key
    BY <1>1, WriteOfKey
  <1>3. /\ asked' \in [Window -> Asked \cup {None}]
        /\ \A v \in Window \ {w} : asked'[v] = asked[v]
        /\ n \in 0..MaxWrites
    BY <1>1, <1>2, WroteType
  <1>4. /\ gcache' \in [Window -> Window \cup {None}]
        /\ c \in Window /\ gcache'[w] = c
        /\ \A v \in Window \ {w} : gcache'[v] = gcache[v]
        /\ gcache[w] # None => gcache'[w] = gcache[w]
        /\ CachesUp(w)' \subseteq reached /\ CachesMade'
    BY <1>1, Loading
  <1>5. ASSUME NEW d \in Window
        PROVE  /\ values'[d] \in Seq(Entry) /\ OneOfEachName(values'[d])
               /\ Some(values'[d], values[d])
               /\ d \in reached => /\ NoneNamed(values'[d], Read(k))
                                  /\ NoneNamed(values'[d], Select)
    <2> DEFINE all == Forget(w, k)[d]
    <2>1. values[d] \in Seq(Entry) /\ OneOfEachName(values[d])
      BY OpenWindows
    <2>2. all = IF d = c THEN Without(values[d], Read(k)) ELSE values[d]
      BY <1>4, OpenWindows DEF Forget
    <2>3. all \in Seq(Entry) /\ OneOfEachName(all) /\ Some(all, values[d])
      BY <2>1, <2>2, WithoutEntries, SameEntries
    <2>4. values'[d] = IF d \in reached THEN PrunedBySave(all, k) ELSE all
      BY <1>1
    <2> HIDE DEF all, reached, k
    <2>5. CASE d \in reached
      <3>1. /\ PrunedBySave(all, k) \in Seq(Entry)
            /\ OneOfEachName(PrunedBySave(all, k))
            /\ Some(PrunedBySave(all, k), all)
            /\ NoneNamed(PrunedBySave(all, k), Select)
            /\ NoneNamed(PrunedBySave(all, k), Read(k))
        BY <2>3, PrunedEntries
      <3> QED
        BY <2>3, <2>4, <2>5, <3>1, SomeOfSome
    <2>6. CASE d \notin reached
      BY <2>3, <2>4, <2>6
    <2> QED
      BY <2>5, <2>6
  <1>6. values' \in [Window -> Seq(Entry)]
    <2>1. values' = [d \in Window |-> values'[d]]
      BY <1>1
    <2> QED
      BY <1>5, <2>1
  <1> DEFINE own == [known[w].own EXCEPT ![k] = n]
             saved == [known[w].saved EXCEPT ![k] = n]
             listed == [known[w].listed EXCEPT ![k] = n]
  <1> DEFINE Knowledge == [own : Contents, saved : Contents, listed : Contents]
  <1>7. known \in [Window -> Knowledge] /\ known[w] \in Knowledge
    BY OpenWindows
  <1>8. /\ known[w] \in [own : Contents, saved : Contents, listed : Contents]
        /\ known[w].own \in Contents /\ known[w].saved \in Contents
        /\ known[w].listed \in Contents
        /\ known'[w] = [own |-> own, saved |-> saved, listed |-> listed]
        /\ known' = [known EXCEPT ![w] = known'[w]]
    BY <1>1, <1>7
  <1>9. /\ own \in Contents /\ saved \in Contents /\ listed \in Contents
        /\ \A key \in Key \ {k} : /\ own[key] = known[w].own[key]
                                 /\ saved[key] = known[w].saved[key]
                                 /\ listed[key] = known[w].listed[key]
    BY <1>2, <1>3, <1>8, WrittenContents
  <1> HIDE DEF own, saved, listed, n, c, reached
  <1>10. known' \in [Window -> [own : Contents, saved : Contents, listed : Contents]]
    BY <1>7, <1>8, <1>9
  <1>11. /\ \A v \in Window \ {w} : known'[v] = known[v]
        /\ known'[w].own = own /\ known'[w].saved = saved
        /\ known'[w].listed = listed
    BY <1>7, <1>8, <1>9
  <1>12. TypeOK'
    <2>1. TypeOK
      BY OpenWindows
    <2> QED
      BY <1>1, <1>3, <1>4, <1>6, <1>10, <2>1 DEF TypeOK
  <1>13. EntriesNamed'
    BY <1>5, AllNamed
  <1>14. \A d \in Window : OwnNames(values'[d])
    BY <1>13 DEF EntriesNamed
  <1>15. ClosedHasNothing' /\ EntriesUsed' /\ WriterHasCache'
    <2>1. \A d \in Window : values'[d] # << >> => values[d] # << >>
      BY <1>5, OpenWindows DEF Some
    <2>2. gcache'[w] # None
      BY <1>4, CacheAssumption
    <2> QED
      BY <1>1, <1>3, <1>4, <1>11, <2>1, <2>2, OtherParts
  <1>16. /\ Read(k) \in {Read(k), Select} /\ Select \in {Read(k), Select}
         /\ Read(k).kind = "READ" /\ Select.kind = "SELECT"
    BY DEF Read, Select
  <1>17. ASSUME NEW v \in open
         PROVE  /\ gcache'[v] # None
                     => NoneBefore(values'[gcache'[v]], "READ", known'[v].own)
                /\ \A d \in CachesUp(v)' :
                     /\ NoneBefore(values'[d], "READ", known'[v].saved)
                     /\ NoneBefore(values'[d], "SELECT", known'[v].listed)
    <2>1. /\ gcache'[v] # None
                => NoneBefore(values'[gcache'[v]], "READ", known[v].own)
          /\ \A d \in CachesUp(v)' :
               /\ d \in Window
               /\ NoneBefore(values'[d], "READ", known[v].saved)
               /\ NoneBefore(values'[d], "SELECT", known[v].listed)
      <3>1. v \in Window
        BY OpenWindows
      <3>2. gcache'[v] # None
              => gcache'[v] \in Window
                 /\ NoneBefore(values[gcache'[v]], "READ", known[v].own)
        BY <1>1, <1>4, <3>1, LoadedForgotten
      <3>3. \A d \in CachesUp(v)' :
              /\ d \in Window
              /\ NoneBefore(values[d], "READ", known[v].saved)
              /\ NoneBefore(values[d], "SELECT", known[v].listed)
        BY <1>1, LoadedForgotten
      <3> QED
        BY <1>5, <3>2, <3>3, SomeKeep
    <2>2. CASE v # w
      <3>1. known'[v] = known[v]
        BY <1>11, <2>2, OpenWindows
      <3> QED
        BY <2>1, <3>1
    <2>3. CASE v = w
      <3>1. c \in reached /\ gcache'[v] = c
        BY <1>4, <2>3 DEF reached
      <3>2. NoneBefore(values'[c], "READ", own)
        <4>1. NoneBefore(values'[c], "READ", known[w].own)
          BY <1>4, <2>1, <2>3, <3>1, CacheAssumption
        <4> QED
          BY <1>2, <1>4, <1>5, <1>8, <1>9, <1>14, <1>16, <3>1, <4>1,
             WrittenEntries
      <3>3. ASSUME NEW d \in CachesUp(w)'
            PROVE  /\ NoneBefore(values'[d], "READ", saved)
                   /\ NoneBefore(values'[d], "SELECT", listed)
        <4>1. d \in reached /\ d \in Window
              /\ NoneBefore(values'[d], "READ", known[w].saved)
              /\ NoneBefore(values'[d], "SELECT", known[w].listed)
          BY <1>4, <2>1, <2>3
        <4>2. /\ values'[d] \in Seq(Entry) /\ OwnNames(values'[d])
              /\ NoneNamed(values'[d], Read(k)) /\ NoneNamed(values'[d], Select)
          BY <1>5, <1>14, <4>1
        <4>3. NoneBefore(values'[d], "READ", saved)
          BY <1>2, <1>8, <1>9, <1>16, <4>1, <4>2, WrittenEntries
        <4>4. NoneBefore(values'[d], "SELECT", listed)
          BY <1>2, <1>8, <1>9, <1>16, <4>1, <4>2, WrittenEntries
        <4> QED
          BY <4>3, <4>4
      <3>4. /\ known'[w].own = own /\ known'[w].saved = saved
            /\ known'[w].listed = listed
        BY <1>11
      <3> QED
        BY <2>3, <3>1, <3>2, <3>3, <3>4
    <2> QED
      BY <2>2, <2>3
  <1>18. SavesForgotten' /\ SelectionsRefreshed'
    BY <1>1, <1>17, ForgottenNext
  <1> QED
    BY <1>4, <1>12, <1>13, <1>15, <1>18 DEF IInv

LEMMA AnswerCloseIInv ==
  ASSUME IInv, NEW w \in Window, AnswerClose(w)
  PROVE  IInv'
  <1> DEFINE k == asked[w].key
             n == asked[w].versions[k]
             c == Loaded(w)
             own == [known[w].own EXCEPT ![k] = n]
             Knowledge == [own : Contents, saved : Contents, listed : Contents]
  <1>1. /\ w \in open /\ asked[w] # None /\ asked[w].kind = "CLOSE"
        /\ Answered(w) /\ LoadCache(w)
        /\ UNCHANGED <<records, up, framed, open, opened>>
        /\ values' = Forget(w, k)
        /\ known' = [known EXCEPT ![w].own[k] = n]
    BY DEF AnswerClose, Answered
  <1>2. k \in Key
    BY <1>1, WriteOfKey
  <1>3. /\ asked' \in [Window -> Asked \cup {None}]
        /\ \A v \in Window \ {w} : asked'[v] = asked[v]
        /\ n \in 0..MaxWrites
    BY <1>1, <1>2, WroteType
  <1>4. /\ gcache' \in [Window -> Window \cup {None}]
        /\ c \in Window /\ gcache'[w] = c
        /\ \A v \in Window \ {w} : gcache'[v] = gcache[v]
        /\ gcache[w] # None => gcache'[w] = gcache[w]
        /\ CachesMade'
    BY <1>1, Loading
  <1>5. ASSUME NEW d \in Window
        PROVE  /\ values'[d] \in Seq(Entry) /\ OneOfEachName(values'[d])
               /\ Some(values'[d], values[d])
               /\ d = c => NoneNamed(values'[d], Read(k))
    <2>1. values[d] \in Seq(Entry) /\ OneOfEachName(values[d])
      BY OpenWindows
    <2>2. values'[d] = IF d = c THEN Without(values[d], Read(k)) ELSE values[d]
      BY <1>1, <1>4, OpenWindows DEF Forget
    <2> QED
      BY <2>1, <2>2, WithoutEntries, SameEntries
  <1>6. values' \in [Window -> Seq(Entry)]
    <2>1. Without(values[c], Read(k)) \in Seq(Entry)
      BY <1>4, OpenWindows, WithoutEntries
    <2> QED
      BY <1>1, <2>1, OpenWindows DEF Forget
  <1>7. known \in [Window -> Knowledge] /\ known[w] \in Knowledge
    BY OpenWindows
  <1>8. /\ known[w].own \in Contents
        /\ known'[w] = [known[w] EXCEPT !.own = own]
        /\ known' = [known EXCEPT ![w] = known'[w]]
    BY <1>1, <1>7
  <1>9. own \in Contents /\ \A key \in Key \ {k} : own[key] = known[w].own[key]
    BY <1>2, <1>3, <1>8, WrittenContents
  <1> HIDE DEF own, n, c, k
  <1>10. known' \in [Window -> Knowledge]
    BY <1>7, <1>8, <1>9
  <1>11. /\ \A v \in Window \ {w} : known'[v] = known[v]
         /\ known'[w].own = own /\ known'[w].saved = known[w].saved
         /\ known'[w].listed = known[w].listed
    BY <1>7, <1>8, <1>9
  <1>12. TypeOK'
    <2>1. TypeOK
      BY OpenWindows
    <2> QED
      BY <1>1, <1>3, <1>4, <1>6, <1>10, <2>1 DEF TypeOK
  <1>13. EntriesNamed'
    BY <1>5, AllNamed
  <1>14. OwnNames(values'[c])
    BY <1>4, <1>13 DEF EntriesNamed
  <1>15. ClosedHasNothing' /\ EntriesUsed' /\ WriterHasCache'
    <2>1. \A d \in Window : values'[d] # << >> => values[d] # << >>
      BY <1>5, OpenWindows DEF Some
    <2>2. gcache'[w] # None
      BY <1>4, CacheAssumption
    <2> QED
      BY <1>1, <1>3, <1>4, <1>11, <2>1, <2>2, OtherParts
  <1>16. ASSUME NEW v \in open
         PROVE  /\ gcache'[v] # None
                     => NoneBefore(values'[gcache'[v]], "READ", known'[v].own)
                /\ \A d \in CachesUp(v)' :
                     /\ NoneBefore(values'[d], "READ", known'[v].saved)
                     /\ NoneBefore(values'[d], "SELECT", known'[v].listed)
    <2>1. v \in Window
      BY OpenWindows
    <2>2. gcache'[v] # None
            => gcache'[v] \in Window
               /\ NoneBefore(values'[gcache'[v]], "READ", known[v].own)
      <3>1. gcache'[v] # None
              => gcache'[v] \in Window
                 /\ NoneBefore(values[gcache'[v]], "READ", known[v].own)
        BY <1>1, <1>4, <2>1, LoadedForgotten
      <3> QED
        BY <1>5, <3>1, SomeKeep
    <2>3. \A d \in CachesUp(v)' :
            /\ NoneBefore(values'[d], "READ", known[v].saved)
            /\ NoneBefore(values'[d], "SELECT", known[v].listed)
      <3>1. \A d \in CachesUp(v)' :
              /\ d \in Window
              /\ NoneBefore(values[d], "READ", known[v].saved)
              /\ NoneBefore(values[d], "SELECT", known[v].listed)
        BY <1>1, LoadedForgotten
      <3> QED
        BY <1>5, <3>1, SomeKeep
    <2>4. known'[v].saved = known[v].saved /\ known'[v].listed = known[v].listed
      BY <1>11, <2>1
    <2>5. CASE v # w
      <3>1. known'[v] = known[v]
        BY <1>11, <2>1, <2>5
      <3> QED
        BY <2>2, <2>3, <3>1
    <2>6. CASE v = w
      <3>1. gcache'[v] = c /\ c # None /\ c \in Window
        BY <1>4, <2>6, CacheAssumption
      <3>2. NoneBefore(values'[c], "READ", known[w].own)
        BY <2>2, <2>6, <3>1
      <3>3. /\ Read(k) \in {Read(k), Select} /\ Read(k).kind = "READ"
            /\ values'[c] \in Seq(Entry) /\ NoneNamed(values'[c], Read(k))
        BY <1>5, <3>1 DEF Read
      <3>4. NoneBefore(values'[c], "READ", own)
        BY <1>2, <1>8, <1>9, <1>14, <3>2, <3>3, WrittenEntries
      <3>5. known'[v].own = own
        BY <1>11, <2>6
      <3> QED
        BY <2>3, <2>4, <3>1, <3>4, <3>5
    <2> QED
      BY <2>5, <2>6
  <1>17. SavesForgotten' /\ SelectionsRefreshed'
    BY <1>1, <1>16, ForgottenNext
  <1> QED
    BY <1>4, <1>12, <1>13, <1>15, <1>17 DEF IInv

LEMMA AnswerDeleteIInv ==
  ASSUME IInv, NEW w \in Window, AnswerDelete(w)
  PROVE  IInv'
  <1> DEFINE k == asked[w].key
             n == asked[w].versions[k]
             listed == [known[w].listed EXCEPT ![k] = n]
             Knowledge == [own : Contents, saved : Contents, listed : Contents]
  <1>1. /\ w \in open /\ asked[w] # None /\ asked[w].kind = "DELETE"
        /\ Answered(w)
        /\ UNCHANGED <<records, up, framed, open, opened, gcache>>
        /\ values' = [d \in Window |->
                        IF d \in Reached(w) THEN Without(values[d], Select)
                        ELSE values[d]]
        /\ known' = [known EXCEPT ![w].listed[k] = n]
    BY DEF AnswerDelete, Answered, PrunedByDelete, Prune
  <1>2. k \in Key
    BY <1>1, WriteOfKey
  <1>3. /\ asked' \in [Window -> Asked \cup {None}]
        /\ \A v \in Window \ {w} : asked'[v] = asked[v]
        /\ n \in 0..MaxWrites
    BY <1>1, <1>2, WroteType
  <1>4. CachesMade'
    BY <1>1 DEF IInv, CachesMade
  <1>5. ASSUME NEW d \in Window
        PROVE  /\ values'[d] \in Seq(Entry) /\ OneOfEachName(values'[d])
               /\ Some(values'[d], values[d])
               /\ d \in Reached(w) => NoneNamed(values'[d], Select)
    <2>1. values[d] \in Seq(Entry) /\ OneOfEachName(values[d])
      BY OpenWindows
    <2>2. values'[d] = IF d \in Reached(w) THEN Without(values[d], Select)
                       ELSE values[d]
      BY <1>1
    <2> QED
      BY <2>1, <2>2, WithoutEntries, SameEntries
  <1>6. values' \in [Window -> Seq(Entry)]
    <2>1. values' = [d \in Window |-> values'[d]]
      BY <1>1
    <2> QED
      BY <1>5, <2>1
  <1>7. known \in [Window -> Knowledge] /\ known[w] \in Knowledge
    BY OpenWindows
  <1>8. /\ known[w].listed \in Contents
        /\ known'[w] = [known[w] EXCEPT !.listed = listed]
        /\ known' = [known EXCEPT ![w] = known'[w]]
    BY <1>1, <1>7
  <1>9. /\ listed \in Contents
        /\ \A key \in Key \ {k} : listed[key] = known[w].listed[key]
    BY <1>2, <1>3, <1>8, WrittenContents
  <1> HIDE DEF listed, n, k
  <1>10. known' \in [Window -> Knowledge]
    BY <1>7, <1>8, <1>9
  <1>11. /\ \A v \in Window \ {w} : known'[v] = known[v]
         /\ known'[w].own = known[w].own /\ known'[w].saved = known[w].saved
         /\ known'[w].listed = listed
    BY <1>7, <1>8, <1>9
  <1>12. TypeOK'
    <2>1. TypeOK
      BY OpenWindows
    <2> QED
      BY <1>1, <1>3, <1>6, <1>10, <2>1 DEF TypeOK
  <1>13. EntriesNamed'
    BY <1>5, AllNamed
  <1>14. ClosedHasNothing' /\ EntriesUsed' /\ WriterHasCache'
    <2>1. \A d \in Window : values'[d] # << >> => values[d] # << >>
      BY <1>5, OpenWindows DEF Some
    <2> QED
      BY <1>1, <1>3, <1>11, <2>1, OtherParts
  <1>15. SavesForgotten /\ SelectionsRefreshed
    BY DEF IInv
  <1>16. ASSUME NEW v \in open
         PROVE  /\ gcache'[v] # None
                     => NoneBefore(values'[gcache'[v]], "READ", known'[v].own)
                /\ \A d \in CachesUp(v)' :
                     /\ NoneBefore(values'[d], "READ", known'[v].saved)
                     /\ NoneBefore(values'[d], "SELECT", known'[v].listed)
    <2>1. /\ v \in Window /\ gcache'[v] \in Window \cup {None}
          /\ CachesUp(v)' = CachesUp(v) /\ CachesUp(v) \subseteq Window
      <3>1. v \in Window /\ gcache[v] \in Window \cup {None} /\ TypeOK
        BY OpenWindows
      <3>2. CachesUp(v)' = CachesUp(v)
        BY <1>1, SameChain DEF CachesUp
      <3> QED
        BY <1>1, <3>1, <3>2, CachesUpFacts
    <2>2. gcache'[v] # None
            => NoneBefore(values'[gcache'[v]], "READ", known[v].own)
      <3>1. gcache'[v] # None
              => NoneBefore(values[gcache'[v]], "READ", known[v].own)
        BY <1>1, <1>15, Forgotten
      <3> QED
        BY <1>5, <2>1, <3>1, SomeKeep
    <2>3. \A d \in CachesUp(v)' :
            /\ NoneBefore(values'[d], "READ", known[v].saved)
            /\ NoneBefore(values'[d], "SELECT", known[v].listed)
      <3>1. \A d \in CachesUp(v) :
              /\ NoneBefore(values[d], "READ", known[v].saved)
              /\ NoneBefore(values[d], "SELECT", known[v].listed)
        BY <1>15, Forgotten
      <3> QED
        BY <1>5, <2>1, <3>1, SomeKeep
    <2>4. known'[v].own = known[v].own /\ known'[v].saved = known[v].saved
      BY <1>11, <2>1
    <2>5. CASE v # w
      <3>1. known'[v] = known[v]
        BY <1>11, <2>1, <2>5
      <3> QED
        BY <2>2, <2>3, <3>1
    <2>6. CASE v = w
      <3>1. ASSUME NEW d \in CachesUp(v)'
            PROVE  NoneBefore(values'[d], "SELECT", listed)
        <4>1. d \in Window /\ d \in Reached(w)
              /\ NoneBefore(values'[d], "SELECT", known[w].listed)
          BY <2>1, <2>3, <2>6 DEF CachesUp, Reached
        <4>2. /\ Select \in {Read(k), Select} /\ Select.kind = "SELECT"
              /\ values'[d] \in Seq(Entry) /\ NoneNamed(values'[d], Select)
              /\ OwnNames(values'[d])
          BY <1>5, <1>13, <4>1 DEF Select, EntriesNamed
        <4> QED
          BY <1>2, <1>8, <1>9, <4>1, <4>2, WrittenEntries
      <3>2. known'[v].listed = listed
        BY <1>11, <2>6
      <3> QED
        BY <2>2, <2>3, <2>4, <3>1, <3>2
    <2> QED
      BY <2>5, <2>6
  <1>17. SavesForgotten' /\ SelectionsRefreshed'
    BY <1>1, <1>16, ForgottenNext
  <1> QED
    BY <1>4, <1>12, <1>13, <1>14, <1>17 DEF IInv

-----------------------------------------------------------------------------
(* The specification                                                       *)

LEMMA InitIInv == Init => IInv
  <1> SUFFICES ASSUME Init PROVE IInv
    OBVIOUS
  <1>1. Fresh \in Contents /\ Unknown.own = Fresh
        /\ Unknown \in [own : Contents, saved : Contents, listed : Contents]
    BY CacheAssumption DEF Fresh, Unknown, Contents
  <1>2. TypeOK
    <2>1. records \in [Key -> [version : 0..MaxWrites, exists : BOOLEAN]]
      BY CacheAssumption DEF Init
    <2>2. values \in [Window -> Seq(Entry)]
      BY EmptyEntries DEF Init
    <2> QED
      BY <1>1, <2>1, <2>2 DEF Init, TypeOK
  <1>3. \A c \in Window : values[c] = << >>
    BY DEF Init
  <1>4. EntriesNamed /\ EntriesUsed
    BY <1>3, EmptyEntries DEF EntriesNamed, EntriesUsed
  <1>5. ClosedHasNothing /\ CachesMade /\ WriterHasCache
    BY <1>1, CacheAssumption
    DEF Init, ClosedHasNothing, CachesMade, WriterHasCache
  <1>6. open \subseteq Window /\ \A w \in Window : CachesUp(w) \subseteq Window
    BY <1>2, CachesUpFacts DEF TypeOK
  <1>7. SavesForgotten /\ SelectionsRefreshed
    <2>1. \A w \in open : gcache[w] = None
      BY <1>6 DEF Init
    <2>2. \A w \in open : \A c \in CachesUp(w) : values[c] = << >>
      BY <1>3, <1>6
    <2> QED
      BY <2>1, <2>2, EmptyEntries, Forgotten
  <1> QED
    BY <1>2, <1>4, <1>5, <1>7 DEF IInv

LEMMA StutterIInv ==
  ASSUME IInv, UNCHANGED vars
  PROVE  IInv'
  <1>1. UNCHANGED <<records, up, framed, open, opened, gcache, values, asked, known>>
    BY DEF vars
  <1>2. TypeOK'
    BY <1>1 DEF IInv, TypeOK
  <1>3. EntriesNamed'
    BY <1>1 DEF IInv, EntriesNamed
  <1>4. ClosedHasNothing'
    BY <1>1 DEF IInv, ClosedHasNothing
  <1>5. CachesMade'
    BY <1>1 DEF IInv, CachesMade
  <1>6. EntriesUsed'
    BY <1>1 DEF IInv, EntriesUsed
  <1>7. WriterHasCache'
    BY <1>1 DEF IInv, WriterHasCache
  <1>8. SavesForgotten' /\ SelectionsRefreshed'
    <2>1. \A w \in open : CachesUp(w)' = CachesUp(w)
      BY <1>1, SameChain DEF CachesUp
    <2> QED
      BY <1>1, <1>2, <2>1, SameEntries, Keeping
  <1> QED
    BY <1>2, <1>3, <1>4, <1>5, <1>6, <1>7, <1>8 DEF IInv

LEMMA NextIInv == IInv /\ [Next]_vars => IInv'
  <1> SUFFICES ASSUME IInv, [Next]_vars PROVE IInv'
    OBVIOUS
  <1>1. CASE UNCHANGED vars
    BY <1>1, StutterIInv
  <1>2. ASSUME NEW w \in Window, NEW o \in Window, OpenWindow(w, o)
        PROVE  IInv'
    BY <1>2, OpenWindowIInv
  <1>3. ASSUME NEW w \in Window, CloseWindow(w)
        PROVE  IInv'
    BY <1>3, CloseWindowIInv
  <1>4. ASSUME NEW w \in Window, NEW k \in Key, AskRead(w, k)
        PROVE  IInv'
    BY <1>4, AskReadIInv
  <1>5. ASSUME NEW w \in Window, NEW kind \in Lists, AskList(w, kind)
        PROVE  IInv'
    BY <1>5, AskListIInv
  <1>6. ASSUME NEW w \in Window, NEW kind \in {"SAVE", "CLOSE", "DELETE"},
               NEW k \in Key, AskWrite(w, kind, k)
        PROVE  IInv'
    BY <1>6, AskWriteIInv
  <1>7. ASSUME NEW w \in Window,
               AnswerQuery(w) \/ AnswerSave(w) \/ AnswerClose(w) \/ AnswerDelete(w)
        PROVE  IInv'
    BY <1>7, AnswerQueryIInv, AnswerSaveIInv, AnswerCloseIInv, AnswerDeleteIInv
  <1>8. ASSUME NEW w \in Window, TrimCache(w) \/ ClearCache(w)
        PROVE  IInv'
    BY <1>8, TrimCacheIInv, ClearCacheIInv
  <1> QED
    BY <1>1, <1>2, <1>3, <1>4, <1>5, <1>6, <1>7, <1>8 DEF Next

\* The invariant that is kept by each step (ClientCache!Next).
THEOREM Invariance == Spec => []IInv
  <1> QED
    BY InitIInv, NextIInv, PTL DEF Spec

\* The caches hold lists of entries and refer to windows, and a window asks for
\* what there is: the variables of the cache have their types in every state.
THEOREM TypeCorrect == Spec => []TypeOK
  <1>1. IInv => TypeOK
    BY DEF IInv
  <1> QED
    BY Invariance, <1>1, PTL

\* No window reads a record in its cache as it was before the window saved it,
\* and none up the chain of openers has it so after a save with the button
\* (writedoc(), saverecord_onclick(), prunecache()), however many windows are
\* opened and closed, take caches of others, ask and write in between.  Excepted
\* are entries that were already old when they arrived (late).
THEOREM SavesAreForgotten == Spec => []SavesForgotten
  <1>1. IInv => SavesForgotten
    BY DEF IInv
  <1> QED
    BY Invariance, <1>1, PTL

\* No window up the chain of openers keeps a selection from before a save or
\* delete with the buttons (saverecord_onclick(), deleterecord_onclick()), unless
\* it was already old when it arrived (late).
THEOREM SelectionsAreRefreshed == Spec => []SelectionsRefreshed
  <1>1. IInv => SelectionsRefreshed
    BY DEF IInv
  <1> QED
    BY Invariance, <1>1, PTL
==============================================================================
