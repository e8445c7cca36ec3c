------------------------------ MODULE ClientCache ------------------------------
(***************************************************************************)
(* The cache that the windows of a browser share (service/www/3/exodus/    *)
(* scripts/client.js, gcache): answers to requests are kept by request.  A *)
(* window takes the cache of the window that opened it, if that one has    *)
(* one already, or makes its own.  A window that saves or deletes a record *)
(* deletes what it knows to be old: in its own cache and, with the buttons *)
(* of a form, in those of the windows up the chain of openers.             *)
(*                                                                         *)
(* One file of the database is modelled.  A version of a record stands for *)
(* its contents, and a selection or an index for the versions it was made  *)
(* from.  All windows are of one data set.                                 *)
(***************************************************************************)
EXTENDS SequencesExt, FiniteSets, Integers

CONSTANTS
  Window, Key,
  CacheKey,       \* cachekey(): the name under which an answer is kept, by request
  None,
  Lists,          \* the lists that windows ask for: "SELECT", "INDEX"
  MaxEntries,     \* gmaxcachen
  MaxAsked,       \* bound: requests under way, of all windows
  MaxWrites       \* bound: writes of a record

\* 'READ\rfile\rkey', 'SELECT\rfile\r...' and 'GETINDEXVALUESXML\rfile\rfield'
Request == [kind : {"READ"}, key : Key] \cup [kind : {"SELECT", "INDEX"}, key : {None}]

ASSUME CacheAssumption ==
  /\ None \notin Window \cup Key
  /\ CacheKey \in [Request -> Request]
  /\ Lists \subseteq {"SELECT", "INDEX"}
  /\ MaxEntries \in Nat /\ MaxAsked \in Nat /\ MaxWrites \in Nat

Read(k) == [kind |-> "READ", key |-> k]
Select == [kind |-> "SELECT", key |-> None]
Index == [kind |-> "INDEX", key |-> None]

VARIABLES
  records,    \* of the database: version and whether the record exists, by key
  up,         \* window.opener, or window.parent of a frame, None of none
  framed,     \* the window has a parent and no opener
  open,       \* the windows that are open
  opened,     \* and those that have ever been: none is opened twice
  gcache,     \* gcache of a window: the window that made it, None while not loaded
  values,     \* gcache.values, by the window that made it: entries, first put first
  asked,      \* the request of a window that is not answered yet
  known       \* ghost: the last versions each window wrote, by how it wrote

vars == <<records, up, framed, open, opened, gcache, values, asked, known>>

\* What is known of the records, by key: their versions.
Contents == [Key -> 0..MaxWrites]

\* late: the answer was already older than what a window had written when it
\* was put in the cache (a ghost of the entry).
Entry == [name : Request, request : Request, versions : Contents,
          late : BOOLEAN]

-----------------------------------------------------------------------------
(* The cache of a window                                                   *)

\* loadcache(): "if gcache available already", that of the opener, or a new one.
Loaded(w) ==
  IF gcache[w] # None THEN gcache[w]
  ELSE IF up[w] # None /\ ~framed[w] /\ gcache[up[w]] # None THEN gcache[up[w]]
  ELSE w

LoadCache(w) == gcache' = [gcache EXCEPT ![w] = Loaded(w)]

\* readcache()
Hits(c, request) ==
  {i \in DOMAIN values[c] : values[c][i].name = CacheKey[request]}

\* writecache(): an entry that is there keeps its place.
Put(entries, e) ==
  IF \E i \in DOMAIN entries : entries[i].name = e.name
  THEN [i \in DOMAIN entries |-> IF entries[i].name = e.name THEN e ELSE entries[i]]
  ELSE Append(entries, e)

\* deletecache(): there is at most one entry of a name.
Without(entries, request) ==
  LET named == {i \in DOMAIN entries : entries[i].name = CacheKey[request]}
  IN IF named = {} THEN entries
                   ELSE RemoveAt(entries, CHOOSE i \in named : TRUE)

\* The chain of openers and parents: what is in every set that has w, and the
\* opener of each that it has.
UpClosed(s) == \A v \in s : up[v] # None => up[v] \in s
Chain(w) ==
  LET closed == {s \in SUBSET Window : w \in s /\ UpClosed(s)}
  IN {v \in Window : \A s \in closed : v \in s}

\* prunecache() goes up the chain to the caches that are loaded.
Reached(w) == {gcache[v] : v \in Chain(w)} \ {None}

\* prunecache(), in one cache.
Prune(entries, request) == Without(entries, request)

\* Requests of the form prune with 'SELECT\rfile\r' and 'GETINDEXVALUES\rfile\r':
\* no request begins with the latter.
PrunedByDelete(entries) == Prune(entries, Select)

\* Variant: only what is read again.
PrunedByReadOnly(entries, k) == Prune(entries, Read(k))

PrunedBySave(entries, k) == Prune(Prune(entries, Select), Read(k))

-----------------------------------------------------------------------------
(* Windows                                                                 *)

Fresh == [k \in Key |-> 0]
Unknown == [own |-> Fresh, saved |-> Fresh, listed |-> Fresh]

Init ==
  /\ records = [k \in Key |-> [version |-> 0, exists |-> TRUE]]
  /\ up = [w \in Window |-> None] /\ framed = [w \in Window |-> FALSE]
  /\ \E w \in Window : open = {w}
  /\ opened = open
  /\ gcache = [w \in Window |-> None]
  /\ values = [c \in Window |-> << >>]
  /\ asked = [w \in Window |-> None]
  /\ known = [w \in Window |-> Unknown]

\* window.open() and dialogs, or a frame of a page.
OpenWindow(w, o) ==
  /\ w \notin opened /\ o \in open
  /\ open' = open \cup {w} /\ opened' = opened \cup {w}
  /\ up' = [up EXCEPT ![w] = o]
  /\ \E f \in BOOLEAN : framed' = [framed EXCEPT ![w] = f]
  /\ UNCHANGED <<records, gcache, values, asked, known>>

\* The windows that it opened have no opener to reach any more and keep the
\* cache that they share.  A cache that no window has is garbage.
CloseWindow(w) ==
  /\ w \in open
  /\ open' = open \ {w}
  /\ up' = [v \in Window |-> IF v = w \/ up[v] = w THEN None ELSE up[v]]
  /\ framed' = [v \in Window |-> v # w /\ framed[v] /\ up[v] # w]
  /\ gcache' = [gcache EXCEPT ![w] = None]
  /\ values' = [c \in Window |->
                  IF \E v \in open \ {w} : gcache[v] = c THEN values[c] ELSE << >>]
  /\ asked' = [asked EXCEPT ![w] = None]
  /\ known' = [known EXCEPT ![w] = Unknown]
  /\ UNCHANGED <<records, opened>>

-----------------------------------------------------------------------------
(* Requests.  The database serves a request in the step that asks it: no    *)
(* window sees a difference before.  Answers arrive in later steps.        *)

Asked ==
  [kind : {"READ", "SAVE", "CLOSE", "DELETE"}, key : Key,
   versions : Contents, exists : BOOLEAN]
  \cup [kind : {"SELECT", "INDEX"}, key : {None},
        versions : Contents, exists : BOOLEAN]

Ask(w, kind, key) ==
  /\ Cardinality({v \in Window : asked[v] # None}) < MaxAsked
  /\ records' = IF kind \in {"SAVE", "CLOSE", "DELETE"}
                THEN [records EXCEPT ![key] = [version |-> @.version + 1,
                                               exists |-> kind # "DELETE"]]
                ELSE records
  /\ asked' = [asked EXCEPT ![w] =
                 [kind |-> kind, key |-> key,
                  versions |-> [k \in Key |-> records'[k].version],
                  exists |-> key = None \/ records'[key].exists]]

\* exodusread(), reado() and the file check of validate2(): 'CACHE\rREAD', or
\* 'READ' that does not look in the cache.  exodusxlate() of an array of keys
\* asks for those that are not in the cache, and keeps its answers as READ does.
AskRead(w, k) ==
  /\ w \in open /\ asked[w] = None
  /\ \/ LoadCache(w) /\ Hits(Loaded(w), Read(k)) # {} /\ UNCHANGED <<records, asked>>
     \/ LoadCache(w) /\ Hits(Loaded(w), Read(k)) = {} /\ Ask(w, "READ", k)
     \/ UNCHANGED gcache /\ Ask(w, "READ", k)
  /\ UNCHANGED <<up, framed, open, opened, values, known>>

\* 'CACHE\rSELECT' of popups and dropdowns, 'CACHE\rGETINDEXVALUESXML' of
\* form_get_index().
AskList(w, kind) ==
  /\ w \in open /\ asked[w] = None
  /\ LoadCache(w)
  /\ Hits(Loaded(w), [kind |-> kind, key |-> None]) = {}
  /\ Ask(w, kind, None)
  /\ UNCHANGED <<up, framed, open, opened, values, known>>

\* saverecord_onclick(), a save while the form closes or changes to another
\* record, and deleterecord_onclick().
AskWrite(w, kind, k) ==
  /\ w \in open /\ asked[w] = None
  /\ records[k].version < MaxWrites
  /\ Ask(w, kind, k)
  /\ UNCHANGED <<up, framed, open, opened, gcache, values, known>>

Answered(w) ==
  /\ w \in open /\ asked[w] # None
  /\ asked' = [asked EXCEPT ![w] = None]

\* Whether an answer that is put in cache c is older than what a window with
\* that cache, in its own window or up its chain, had written.
IsLate(loaded, c, keys, versions) ==
  \E v \in open, k \in keys :
    /\ \E x \in Chain(v) : loaded[x] = c
    /\ \E way \in DOMAIN Unknown : versions[k] < known[v][way][k]

\* OK: "save in cache".  'NO RECORD' is not kept.
AnswerQuery(w) ==
  /\ Answered(w) /\ asked[w].kind \in {"READ", "SELECT", "INDEX"}
  /\ LET q == asked[w]
         request == [kind |-> q.kind, key |-> q.key]
         c == Loaded(w)
         keys == IF q.key = None THEN Key ELSE {q.key}
         e == [name |-> CacheKey[request], request |-> request,
               versions |-> [k \in Key |-> IF k \in keys THEN q.versions[k] ELSE 0],
               late |-> IsLate([gcache EXCEPT ![w] = c], c, keys, q.versions)]
     IN IF q.exists
        THEN LoadCache(w) /\ values' = [values EXCEPT ![c] = Put(@, e)]
        ELSE UNCHANGED <<gcache, values>>
  /\ UNCHANGED <<records, up, framed, open, opened, known>>

\* Variant: the answer stays.
ForgetNothing(w, k) == values

\* writedoc(): deletecacherecord() in the cache of the window.
Forget(w, k) == [values EXCEPT ![Loaded(w)] = Without(@, Read(k))]

\* A save of the button also prunes up the chain of openers.
AnswerSave(w) ==
  /\ Answered(w) /\ asked[w].kind = "SAVE"
  /\ LoadCache(w)
  /\ LET k == asked[w].key
         reached == Reached(w) \cup {Loaded(w)}
     IN /\ values' = [c \in Window |->
                        IF c \in reached THEN PrunedBySave(Forget(w, k)[c], k)
                        ELSE Forget(w, k)[c]]
        /\ known' = [known EXCEPT ![w].own[k] = asked[w].versions[k],
                                  ![w].saved[k] = asked[w].versions[k],
                                  ![w].listed[k] = asked[w].versions[k]]
  /\ UNCHANGED <<records, up, framed, open, opened>>

AnswerClose(w) ==
  /\ Answered(w) /\ asked[w].kind = "CLOSE"
  /\ LoadCache(w)
  /\ values' = Forget(w, asked[w].key)
  /\ known' = [known EXCEPT ![w].own[asked[w].key] = asked[w].versions[asked[w].key]]
  /\ UNCHANGED <<records, up, framed, open, opened>>

\* prunecache() does not load a cache.
AnswerDelete(w) ==
  /\ Answered(w) /\ asked[w].kind = "DELETE"
  /\ LET k == asked[w].key
     IN /\ values' = [c \in Window |->
                        IF c \in Reached(w) THEN PrunedByDelete(values[c])
                        ELSE values[c]]
        /\ known' = [known EXCEPT ![w].listed[k] = asked[w].versions[k]]
  /\ UNCHANGED <<records, up, framed, open, opened, gcache>>

-----------------------------------------------------------------------------
(* Timer and user                                                          *)

\* "delete initial keys until the size is below the desired limit"
Trimmed(entries) ==
  SubSeq(entries, Len(entries) - MaxEntries + 1, Len(entries))

\* trimcache(), every gcachepruneintervalsecs.
TrimCache(w) ==
  /\ w \in open /\ gcache[w] # None
  /\ Len(values[gcache[w]]) > MaxEntries
  /\ values' = [values EXCEPT ![gcache[w]] = Trimmed(@)]
  /\ UNCHANGED <<records, up, framed, open, opened, gcache, asked, known>>

\* refreshcache_onclick(): clearcache().
ClearCache(w) ==
  /\ w \in open
  /\ LoadCache(w)
  /\ values' = [values EXCEPT ![Loaded(w)] = << >>]
  /\ UNCHANGED <<records, up, framed, open, opened, asked, known>>

Next ==
  \E w \in Window :
    \/ \E o \in Window : OpenWindow(w, o)
    \/ CloseWindow(w)
    \/ \E k \in Key : AskRead(w, k)
    \/ \E kind \in Lists : AskList(w, kind)
    \/ \E kind \in {"SAVE", "CLOSE", "DELETE"}, k \in Key : AskWrite(w, kind, k)
    \/ AnswerQuery(w) \/ AnswerSave(w) \/ AnswerClose(w) \/ AnswerDelete(w)
    \/ TrimCache(w) \/ ClearCache(w)

Spec == Init /\ [][Next]_vars

-----------------------------------------------------------------------------
(* Properties                                                              *)

TypeOK ==
  /\ records \in [Key -> [version : 0..MaxWrites, exists : BOOLEAN]]
  /\ up \in [Window -> Window \cup {None}] /\ framed \in [Window -> BOOLEAN]
  /\ open \subseteq opened /\ opened \subseteq Window
  /\ gcache \in [Window -> Window \cup {None}]
  /\ values \in [Window -> Seq(Entry)]
  /\ asked \in [Window -> Asked \cup {None}]
  /\ known \in [Window -> [own : Contents, saved : Contents, listed : Contents]]

CachesUp(w) == {gcache[v] : v \in Chain(w)} \ {None}

\* No answer of this kind that a window reaches is older than a write of its own,
\* unless it was already when it arrived.
NoneOlder(w, c, kind, way) ==
  \A i \in DOMAIN values[c], k \in Key :
    LET e == values[c][i] IN
    e.request.kind = kind /\ e.request.key \in {k, None} /\ ~e.late
      => e.versions[k] >= known[w][way][k]

\* The cache of a window holds no record as it was before the window last wrote
\* it, with the button or when the form closed, also when it shares the cache
\* with other windows (writedoc(): "if a cached is written then remove it from
\* the cache").  And no window up the chain of openers holds a record as it was
\* before it was saved with the button, whichever windows were opened and closed
\* since (saverecord_onclick(), prunecache(): "also prunes in window.opener and
\* window.parent (and up chain if any)").  In both, entries are excepted that were
\* already old when they arrived.
SavesForgotten ==
  \A w \in open :
    /\ gcache[w] # None => NoneOlder(w, gcache[w], "READ", "own")
    /\ \A c \in CachesUp(w) : NoneOlder(w, c, "READ", "saved")

\* And no window up the chain holds a selection from before a save or delete
\* with the buttons ("prune the cache to reselect any edited record", "any deleted
\* record"), with the same exception.
SelectionsRefreshed ==
  \A w \in open : \A c \in CachesUp(w) : NoneOlder(w, c, "SELECT", "listed")

\* The same for lists of the values of an index, that the buttons prune too.
IndexesRefreshed ==
  \A w \in open : \A c \in CachesUp(w) : NoneOlder(w, c, "INDEX", "listed")

\* A record that was deleted with the button is not read from the cache.
DeletedForgotten ==
  \A w \in open : \A c \in CachesUp(w) : NoneOlder(w, c, "READ", "listed")

\* No answer in a cache is late: a record that is saved stays forgotten until
\* the window reads it again.
SavesStayForgotten ==
  \A c \in Window : \A i \in DOMAIN values[c] : ~values[c][i].late

\* A request finds its own answer: cachekey() tells requests apart.
AnswersAreOwn ==
  \A c \in Window : \A request \in Request :
    \A i \in Hits(c, request) : values[c][i].request = request

\* "hopefully the initial keys are the oldest" (trimcache()).
InitialIsOldest ==
  \A c \in Window : \A i, j \in DOMAIN values[c] :
    \A k \in Key :
      i < j /\ {values[c][i].request.key, values[c][j].request.key} \subseteq {k, None}
        => values[c][i].versions[k] <= values[c][j].versions[k]
=============================================================================
