------------------------- MODULE FormDocumentProofs -------------------------
(***************************************************************************)
(* Proofs about FormDocument, for any records, length of leases and        *)
(* number of faults: what is written under a key are the fields of its     *)
(* record, unsaved changes are dropped by a decision only, until a reply   *)
(* goes astray, no update of another browser is overwritten and no lease   *)
(* is forgotten but those of requests that were lost or given up.          *)
(*                                                                         *)
(* A handler is a chain of pieces, from one yield to the next.  Outcome    *)
(* says what every piece leaves behind, however the chain goes on: each    *)
(* piece is shown to have one from those that it calls, and an action from *)
(* the piece that it starts with.  Continues is what it has to start with  *)
(* for IInv to be kept.                                                    *)
(***************************************************************************)
EXTENDS FormDocument, TLAPS

Waiting == handler.at \in {"reply", "resume_login"}
Edited == form.dirty \/ form.typing
Writes == {"WRITE", "WRITEU", "DELETE"}

\* The document is given up: what was edited is not saved any more.
Discarding ==
  handler.at = "retry_unlock" \/ (Waiting /\ request.type = "UNLOCK")

\* What is opened, asked for and locked has a key; a page that is closed has
\* no handler and no document that is locked.
KeysGiven ==
  /\ handler.mode = "OPEN" => handler.next \in Key
  /\ request.type # "none" => request.key \in Key
  /\ form.locked => form.key \in Key /\ form.session \in 1..lastSession
  /\ page.open => page.key = NoKey
  /\ ~page.open => handler.at = "done" /\ ~form.locked

\* The request that a handler waits for is about the document of the form, or
\* about the one in the cookie of a page that is loaded.
RequestOfHandler ==
  /\ Waiting =>
       /\ ~form.relocker
       /\ IF handler.mode = "LOAD"
          THEN request.type = "UNLOCK" /\ ~form.locked
          ELSE /\ request.key = form.key
               /\ request.type = "WRITE" => ~Unlocks(handler.mode)
               /\ IF request.type = "READU"
                  THEN handler.mode = "OPEN" /\ ~form.locked
                  ELSE /\ request.type \in Writes \cup {"UNLOCK"}
                       /\ form.locked /\ request.session = form.session
  /\ handler.mode = "LOAD" => Waiting
  /\ handler.at = "resume_login" =>
       request.status = "served" /\ request.result = "login"

\* A write that may still be served, also one that was given up, is of the
\* document that the form has.
WriteOfForm ==
  request.type \in Writes /\ request.status = "sent" =>
    form.locked /\ request.key = form.key /\ request.session = form.session

QuestionOfForm ==
  /\ handler.at \in {"save_or_discard", "sure_to_delete", "retry_unlock"} =>
       form.locked
  /\ handler.at = "retry_unlock" =>
       ~form.relocker /\ request.type \in {"none", "UNLOCK"}
  /\ handler.at \in {"deleted", "view_only"} => ~form.locked

\* The user reads the warning of a write: what was edited is saved, and the
\* lease is not there any more if the write was to unlock.
WrittenOf ==
  handler.at = "written" =>
    /\ form.locked /\ ~form.relocker /\ request.type = "none"
    /\ past.settled \/ past.strayed
    /\ Unlocks(handler.mode) => lease[form.key].session # form.session

\* Changes that will be dropped have been saved, or were decided to be.
EditsSettled ==
  Edited /\ (Discarding \/ ~form.locked) => past.settled \/ past.strayed

\* The fields on the screen are those of the document that is locked, unless
\* it was refused after it was locked.
ShownIsLocked ==
  ~UpdateOnly /\ form.locked => form.shown = form.key \/ Discarding

RelockerLocked == form.relocker => form.locked

\* While the form has the lease, nobody else has written the record since the
\* form has read it.
Current(k, version) == disk[k].own \/ disk[k].version = version

BaseIsRead ==
  form.locked /\ lease[form.key].session = form.session =>
    Current(form.key, form.base)

\* What an answer says of the lease and the record holds until it is read.
AnswerHolds ==
  request.status = "served" =>
    /\ request.result = "locked" => request.type = "READU"
    /\ request.result = "ok" /\ request.type = "READU" =>
         /\ request.grant \in 1..lastSession
         /\ lease[request.key].session = request.grant =>
              Current(request.key, request.version)
    /\ /\ request.result = "ok" /\ request.type \in Writes
       /\ lease[request.key].session > 0
       /\ lease[request.key].session = request.session
       => request.type = "WRITE" /\ disk[request.key].own
    /\ /\ request.result = "ok" /\ request.type = "UNLOCK"
       /\ lease[request.key].session > 0
       => lease[request.key].session # request.session

NoneGivenUp ==
  faults = 0 =>
    ~orphan /\ (request.status = "sent" => handler.at = "reply")

\* Who knows of a lease: the form, the answer that grants it, the UNLOCK of a
\* page that is loaded, or the cookie.
OfForm(k, f) == f.locked /\ f.key = k /\ f.session = lease[k].session

OfGrant(k) ==
  /\ Waiting /\ request.key = k /\ request.type = "READU"
  /\ request.status = "served" /\ request.result = "ok"
  /\ request.grant = lease[k].session

OfCookie(k) ==
  \/ /\ Waiting /\ request.key = k
     /\ handler.mode = "LOAD" /\ request.session = lease[k].session
  \/ ~page.open /\ page.key = k /\ page.session = lease[k].session

NothingLost == faults = 0 /\ ~past.gaveUp /\ ~past.strayed

LeasesKnown ==
  NothingLost =>
    \A k \in Key : lease[k].session > 0 =>
      OfForm(k, form) \/ OfGrant(k) \/ OfCookie(k)

IInv ==
  /\ TypeOK /\ KeysGiven
  /\ RequestOfHandler /\ WriteOfForm /\ QuestionOfForm /\ WrittenOf
  /\ EditsSettled /\ ShownIsLocked /\ WritesItsOwn /\ RelockerLocked
  /\ BaseIsRead /\ AnswerHolds /\ NoneGivenUp /\ LeasesKnown

\* No changes are dropped without a decision: EditsKept of one step.
Decided == form.dirty /\ ~form'.dirty => past'.settled \/ past'.strayed

-----------------------------------------------------------------------------
(* What a piece leaves behind that was called with the form f.             *)

Same(f) == form'.key = f.key /\ form'.session = f.session /\ form'.base = f.base

\* A request is on its way.
SentFor(f) ==
  /\ request'.status = "sent" /\ request'.key = form'.key
  /\ request'.key \in Key
  /\ ~form'.relocker
  /\ IF f.locked
     THEN /\ request'.type \in Writes \cup {"UNLOCK"}
          /\ request'.session = form'.session
          /\ request'.type \in {"WRITE", "WRITEU"} =>
               request'.data = form'.shown
          /\ request'.type = "WRITE" => ~Unlocks(handler'.mode)
     ELSE request'.type = "READU" /\ handler'.mode = "OPEN"

\* A question is asked.
AskedFor(f) ==
  /\ handler'.at \notin {"resume_login", "written"}
  /\ handler'.at \in {"save_or_discard", "sure_to_delete", "retry_unlock"} =>
       f.locked
  /\ handler'.at = "retry_unlock" =>
       ~form'.relocker /\ request.type \in {"none", "UNLOCK"}
  /\ handler'.at \in {"deleted", "view_only"} => ~f.locked

Outcome(f) ==
  /\ form' \in Form /\ handler' \in Handler /\ request' \in Request
  /\ form'.locked = f.locked
  /\ form'.relocker => f.relocker /\ f.locked
  /\ form'.dirty \/ form'.typing => f.dirty \/ f.typing
  /\ f.locked => Same(f) /\ (f.shown = f.key => form'.shown = form'.key)
  /\ handler'.mode # "LOAD"
  /\ handler'.mode = "OPEN" => handler'.next \in Key
  /\ IF handler'.at = "reply" THEN SentFor(f) ELSE RequestRead /\ AskedFor(f)

\* What it was called with.
Called(f, h) ==
  /\ f \in Form /\ h \in Handler /\ request \in Request
  /\ f.relocker => f.locked
  /\ f.locked => f.key \in Key
  /\ h.mode # "LOAD" /\ (h.mode = "OPEN" => h.next \in Key)

LEMMA DoneTyped ==
  /\ Done \in Handler /\ Done.mode = "CLOSE" /\ Done.at = "done"
  /\ [Done EXCEPT !.at = "note"] \in Handler
  /\ [Done EXCEPT !.at = "note"].mode = "CLOSE"
  /\ [Done EXCEPT !.at = "note"].at = "note"
  /\ NoRequest \in Request
  BY DEF Done, Handler, Mode, YieldPoint, Question, NoRequest, Request

LEMMA FinishOutcome ==
  ASSUME NEW f \in Form, request \in Request, f.relocker => f.locked,
         form' = f, Finish \/ Note
  PROVE  Outcome(f)
  <1>1. handler' \in Handler /\ handler'.mode = "CLOSE"
        /\ handler'.at \in {"done", "note"} /\ RequestRead
    BY DoneTyped DEF Finish, Note
  <1>2. request' \in Request
    BY <1>1, DoneTyped DEF RequestRead
  <1> QED
    BY <1>1, <1>2 DEF Outcome, AskedFor, Same

LEMMA OpenReadOutcome ==
  ASSUME NEW f, NEW h, Called(f, h), ~f.locked, h.mode = "OPEN", OpenRead(f, h)
  PROVE  Outcome(f)
  <1>1. CASE form' = [f EXCEPT !.key = h.next] /\ Finish
    <2>1. handler' \in Handler /\ handler'.mode = "CLOSE"
          /\ handler'.at = "done" /\ RequestRead
      BY <1>1, DoneTyped DEF Finish
    <2>2. request' \in Request
      BY <2>1, DoneTyped DEF RequestRead, Called
    <2>3. form' \in Form /\ form'.locked = f.locked /\ ~form'.relocker
          /\ form'.dirty = f.dirty /\ form'.typing = f.typing
      BY <1>1 DEF Called, Form, Handler
    <2>4. AskedFor(f)
      BY <2>1 DEF AskedFor
    <2> QED
      BY <2>1, <2>2, <2>3, <2>4 DEF Outcome
  <1>2. CASE /\ form' = [f EXCEPT !.key = h.next, !.session = 0]
             /\ Send("READU", h.next, 0, NoKey, h)
    <2>1. form' \in Form /\ form'.locked = f.locked /\ ~form'.relocker
          /\ form'.dirty = f.dirty /\ form'.typing = f.typing
          /\ form'.key = h.next
      BY <1>2 DEF Called, Form, Handler
    <2>2. handler' = [h EXCEPT !.at = "reply"]
          /\ request' = [NoRequest EXCEPT !.type = "READU", !.key = h.next,
                           !.data = NoKey, !.session = 0, !.status = "sent"]
      BY <1>2 DEF Send
    <2>3. handler' \in Handler /\ handler'.at = "reply"
          /\ handler'.mode = h.mode /\ handler'.next = h.next
      BY <2>2 DEF Called, Handler, YieldPoint
    <2>4. request' \in Request /\ request'.status = "sent"
          /\ request'.type = "READU" /\ request'.key = h.next
      BY <2>2 DEF NoRequest, Request, Called, Handler
    <2>5. SentFor(f)
      BY <2>1, <2>3, <2>4 DEF SentFor, Called
    <2> QED
      BY <2>1, <2>3, <2>4, <2>5 DEF Outcome, Called
  <1> QED
    BY <1>1, <1>2 DEF OpenRead

\* The outcome of a form that was changed on the way.
LEMMA OutcomeBefore ==
  ASSUME NEW f \in Form, NEW g \in Form, Outcome(g),
         g.locked = f.locked, g.relocker => f.relocker,
         g.dirty \/ g.typing => f.dirty \/ f.typing,
         f.locked => /\ g.key = f.key /\ g.session = f.session
                     /\ g.base = f.base /\ g.shown = f.shown
  PROVE  Outcome(f)
  <1>1. handler'.at = "reply" => SentFor(f)
    BY DEF Outcome, SentFor
  <1>2. handler'.at # "reply" => RequestRead /\ AskedFor(f)
    BY DEF Outcome, AskedFor
  <1> QED
    BY <1>1, <1>2 DEF Outcome, Same

LEMMA AskOutcome ==
  ASSUME NEW f, NEW h, Called(f, h), NEW question, Ask(question, h), form' = f,
         \/ question \in {"save_or_discard", "sure_to_delete"} /\ f.locked
         \/ question \in {"deleted", "view_only"} /\ ~f.locked
         \/ /\ question = "retry_unlock" /\ f.locked /\ ~f.relocker
            /\ request.type = "UNLOCK"
  PROVE  Outcome(f)
  <1>1. /\ handler' \in Handler /\ handler'.at = question
        /\ handler'.mode = h.mode /\ handler'.next = h.next /\ RequestRead
    BY DEF Ask, Called, Handler, YieldPoint, Question
  <1>2. request' \in Request
    BY <1>1, DoneTyped DEF RequestRead, Called
  <1>3. AskedFor(f) /\ question # "reply"
    BY <1>1 DEF AskedFor, Called
  <1> QED
    BY <1>1, <1>2, <1>3 DEF Outcome, Same, Called

LEMMA SettledOutcome ==
  ASSUME NEW f, NEW h, Called(f, h), f.locked => h.mode # "OPEN",
         Settled(f, h)
  PROVE  Outcome(f)
  <1> DEFINE g == [f EXCEPT !.dirty = FALSE]
  <1>1. /\ g \in Form /\ g.locked = f.locked /\ g.relocker = f.relocker
        /\ ~g.dirty /\ g.typing = f.typing /\ g.key = f.key
        /\ g.session = f.session /\ g.base = f.base /\ g.shown = f.shown
    BY DEF Called, Form
  <1>2. Called(g, h)
    BY <1>1 DEF Called
  <1>3. Outcome(g)
    <2>1. CASE h.mode = "OPEN"
      <3>1. OpenRead(g, h) /\ ~g.locked
        BY <1>1, <2>1 DEF Settled
      <3> HIDE DEF g
      <3> QED
        BY <1>2, <2>1, <3>1, OpenReadOutcome
    <2>2. CASE h.mode # "OPEN"
      <3>1. form' = g /\ Finish
        BY <2>2 DEF Settled
      <3> HIDE DEF g
      <3> QED
        BY <1>1, <1>2, <3>1, FinishOutcome DEF Called
    <2> QED
      BY <2>1, <2>2
  <1> HIDE DEF g
  <1> QED
    BY <1>1, <1>3, OutcomeBefore DEF Called

LEMMA ClearedOutcome ==
  ASSUME NEW f, NEW h, Called(f, h), ~f.locked, Cleared(f, h)
  PROVE  Outcome(f)
  <1> DEFINE g == [Blank EXCEPT !.relocker = f.relocker]
  <1>1. /\ g \in Form /\ g.locked = f.locked /\ g.relocker = f.relocker
        /\ ~g.dirty /\ ~g.typing
    BY DEF Called, Form, Blank
  <1>2. Settled(g, h)
    BY DEF Cleared
  <1> HIDE DEF g
  <1>3. Called(g, h)
    BY <1>1 DEF Called
  <1>4. Outcome(g)
    BY <1>1, <1>2, <1>3, SettledOutcome
  <1> QED
    BY <1>1, <1>4, OutcomeBefore DEF Called

\* The lock is gone, whatever f says.
LEMMA UnlockedOutcome ==
  ASSUME NEW f, NEW h, Called(f, h), ~f.relocker, Unlocked(f, h)
  PROVE  Outcome([f EXCEPT !.locked = FALSE])
  <1> DEFINE g == [f EXCEPT !.locked = FALSE]
  <1>1. g \in Form /\ ~g.locked /\ ~g.relocker
    BY DEF Called, Form
  <1>2. Cleared(g, h) \/ Settled(g, h)
    BY DEF Unlocked
  <1> HIDE DEF g
  <1>3. Called(g, h)
    BY <1>1 DEF Called
  <1>4. Outcome(g)
    BY <1>1, <1>2, <1>3, SettledOutcome, ClearedOutcome
  <1> QED
    BY <1>4 DEF g

LEMMA UnlockDocOutcome ==
  ASSUME NEW f, NEW h, Called(f, h), UnlockDoc(f, h)
  PROVE  Outcome(f)
  <1> DEFINE g == [f EXCEPT !.relocker = FALSE]
  <1>1. /\ g \in Form /\ g.locked = f.locked /\ ~g.relocker
        /\ g.dirty = f.dirty /\ g.typing = f.typing /\ g.key = f.key
        /\ g.session = f.session /\ g.base = f.base /\ g.shown = f.shown
    BY DEF Called, Form
  <1>2. IF g.locked
        THEN form' = g /\ Send("UNLOCK", g.key, g.session, NoKey, h)
        ELSE Unlocked(g, h)
    BY DEF UnlockDoc
  <1> HIDE DEF g
  <1>3. Called(g, h)
    BY <1>1 DEF Called
  <1>4. CASE g.locked
    <2>1. /\ handler' = [h EXCEPT !.at = "reply"]
          /\ request' = [NoRequest EXCEPT !.type = "UNLOCK", !.key = g.key,
                           !.data = NoKey, !.session = g.session,
                           !.status = "sent"]
      BY <1>2, <1>4 DEF Send
    <2>2. /\ handler' \in Handler /\ handler'.at = "reply"
          /\ handler'.mode = h.mode /\ handler'.next = h.next
      BY <2>1 DEF Called, Handler, YieldPoint
    <2>3. /\ request' \in Request /\ request'.status = "sent"
          /\ request'.type = "UNLOCK" /\ request'.key = g.key
          /\ request'.session = g.session
      BY <1>1, <2>1 DEF NoRequest, Request, Form
    <2>4. form' = g
      BY <1>2, <1>4
    <2>5. SentFor(g)
      BY <1>3, <1>4, <1>1, <2>2, <2>3, <2>4 DEF SentFor, Called
    <2>6. Outcome(g)
      BY <1>1, <1>3, <2>2, <2>3, <2>4, <2>5 DEF Outcome, Same, Called
    <2> QED
      BY <1>1, <2>6, OutcomeBefore DEF Called
  <1>5. CASE ~g.locked
    <2> DEFINE u == [g EXCEPT !.locked = FALSE]
    <2>1. Outcome(u)
      BY <1>1, <1>2, <1>3, <1>5, UnlockedOutcome
    <2>2. u = g
      BY <1>1, <1>5 DEF Form
    <2> QED
      BY <1>1, <2>1, <2>2, OutcomeBefore DEF Called
  <1> QED
    BY <1>4, <1>5

LEMMA ClearOrUnlockOutcome ==
  ASSUME NEW f, NEW h, Called(f, h), ClearOrUnlock(f, h)
  PROVE  Outcome(f)
  <1> DEFINE i == [h EXCEPT !.clear = TRUE]
  <1>1. i \in Handler /\ i.mode = h.mode /\ i.next = h.next
    BY DEF Called, Handler
  <1>2. Called(f, i)
    BY <1>1 DEF Called
  <1>3. \/ UnlockDoc(f, i) \/ UnlockDoc(f, h)
        \/ Settled(f, h) /\ (f.locked => h.mode # "OPEN")
    BY DEF ClearOrUnlock, Unlocks
  <1> HIDE DEF i
  <1> QED
    BY <1>2, <1>3, UnlockDocOutcome, SettledOutcome

LEMMA WriteDocOutcome ==
  ASSUME NEW f, NEW h, Called(f, h), f.locked, WriteDoc(f, h)
  PROVE  Outcome(f) /\ form'.dirty = f.dirty /\ ~Discarding'
  <1>1. CASE form' = f /\ Note
    <2>1. handler'.at = "note"
      BY <1>1, DoneTyped DEF Note
    <2> QED
      BY <1>1, <2>1, FinishOutcome DEF Called, Discarding, Waiting
  <1>2. ASSUME form' = [f EXCEPT !.relocker = FALSE],
               NEW type \in {"WRITE", "WRITEU"},
               type = "WRITE" => ~Unlocks(h.mode),
               Send(type, f.key, f.session, f.shown, h)
        PROVE  Outcome(f) /\ form'.dirty = f.dirty /\ ~Discarding'
    <2>1. /\ form' \in Form /\ form'.locked = f.locked /\ ~form'.relocker
          /\ form'.dirty = f.dirty /\ form'.typing = f.typing
          /\ form'.shown = f.shown /\ Same(f)
      BY <1>2 DEF Called, Form, Same
    <2>2. /\ handler' = [h EXCEPT !.at = "reply"]
          /\ request' = [NoRequest EXCEPT !.type = type, !.key = f.key,
                           !.data = f.shown, !.session = f.session,
                           !.status = "sent"]
      BY <1>2 DEF Send
    <2>3. /\ handler' \in Handler /\ handler'.at = "reply"
          /\ handler'.mode = h.mode /\ handler'.next = h.next
      BY <2>2 DEF Called, Handler, YieldPoint
    <2>4. /\ request' \in Request /\ request'.status = "sent"
          /\ request'.type = type /\ request'.key = f.key
          /\ request'.session = f.session /\ request'.data = f.shown
      BY <2>2 DEF NoRequest, Request, Form, Called
    <2>5. SentFor(f)
      BY <1>2, <2>1, <2>3, <2>4 DEF SentFor, Called, Same, Writes
    <2>6. ~Discarding'
      BY <2>3, <2>4 DEF Discarding
    <2> QED
      BY <2>1, <2>3, <2>4, <2>5, <2>6 DEF Outcome, Same, Called
  <1> QED
    BY <1>1, <1>2 DEF WriteDoc

LEMMA ValidatedForm ==
  ASSUME NEW f \in Form
  PROVE  LET g == Validated(f) IN
         /\ g \in Form /\ g.locked = f.locked /\ g.relocker = f.relocker
         /\ f.dirty => g.dirty
         /\ g.dirty \/ g.typing => f.dirty \/ f.typing
         /\ g.key = f.key /\ g.session = f.session /\ g.base = f.base
         /\ g.shown = f.shown
  BY DEF Validated, Form

\* saveandorcleardoc() drops no changes of a document that is locked.
LEMMA SaveAndOrClearOutcome ==
  ASSUME NEW f, NEW h, Called(f, h), SaveAndOrClear(f, h)
  PROVE  /\ Outcome(f)
         /\ f.locked /\ f.dirty => form'.dirty
         /\ f.locked /\ (f.dirty \/ f.typing) => ~Discarding'
  <1> DEFINE g == Validated(f)
  <1>1. /\ g \in Form /\ g.locked = f.locked /\ g.relocker = f.relocker
        /\ f.dirty => g.dirty
        /\ g.dirty \/ g.typing => f.dirty \/ f.typing
        /\ g.key = f.key /\ g.session = f.session /\ g.base = f.base
        /\ g.shown = f.shown
    BY ValidatedForm DEF Called
  <1>2. \/ ~Unsaved(f) /\ ClearOrUnlock(f, h)
        \/ Unsaved(f) /\ form' = f /\ Finish
        \/ /\ Unsaved(f) /\ (form' = f \/ form' = g)
           /\ Ask("save_or_discard", h)
        \/ Unsaved(f) /\ WriteDoc(g, h)
    BY DEF SaveAndOrClear
  <1> HIDE DEF g
  <1>3. Called(g, h)
    BY <1>1 DEF Called
  <1>4. CASE ~Unsaved(f) /\ ClearOrUnlock(f, h)
    <2>1. Outcome(f)
      BY <1>4, ClearOrUnlockOutcome
    <2>2. ~(f.locked /\ (f.dirty \/ f.typing))
      BY <1>4 DEF Unsaved
    <2> QED
      BY <2>1, <2>2
  <1>5. CASE Unsaved(f) /\ form' = f /\ Finish
    <2>1. Outcome(f)
      BY <1>5, FinishOutcome DEF Called
    <2>2. handler'.at = "done"
      BY <1>5, DoneTyped DEF Finish
    <2> QED
      BY <1>5, <2>1, <2>2 DEF Discarding, Waiting
  <1>6. CASE /\ Unsaved(f) /\ (form' = f \/ form' = g)
             /\ Ask("save_or_discard", h)
    <2>1. f.locked
      BY <1>6 DEF Unsaved
    <2>2. Outcome(f)
      <3>1. form' = f => Outcome(f)
        BY <1>6, <2>1, AskOutcome
      <3>2. form' = g => Outcome(g)
        BY <1>1, <1>3, <1>6, <2>1, AskOutcome
      <3> QED
        BY <1>1, <1>6, <3>1, <3>2, OutcomeBefore DEF Called
    <2>3. handler'.at = "save_or_discard"
      BY <1>6 DEF Ask, Called, Handler
    <2> QED
      BY <1>1, <1>6, <2>2, <2>3 DEF Discarding, Waiting
  <1>7. CASE Unsaved(f) /\ WriteDoc(g, h)
    <2>1. f.locked /\ g.locked
      BY <1>1, <1>7 DEF Unsaved
    <2>2. Outcome(g) /\ form'.dirty = g.dirty /\ ~Discarding'
      BY <1>3, <1>7, <2>1, WriteDocOutcome
    <2>3. Outcome(f)
      BY <1>1, <2>2, OutcomeBefore DEF Called
    <2> QED
      BY <1>1, <2>2, <2>3
  <1> QED
    BY <1>2, <1>4, <1>5, <1>6, <1>7

\* opendoc2(): if the document was locked it is shown, or unlocked again.
LEMMA ShowDocOutcome ==
  ASSUME NEW f, NEW h, Called(f, h), ShowDoc(f, h)
  PROVE  /\ Outcome(f)
         /\ f.locked => form'.shown = form'.key \/ Discarding'
  <1> DEFINE g == Clean(f)
             i == [h EXCEPT !.mode = "ABANDON", !.clear = TRUE]
             s == [g EXCEPT !.loaded = TRUE, !.shown = f.key]
  <1>1. /\ g \in Form /\ g.locked = f.locked /\ g.relocker = f.relocker
        /\ ~g.dirty /\ ~g.typing /\ g.key = f.key /\ g.session = f.session
        /\ g.base = f.base /\ g.shown = f.shown
    BY DEF Called, Form, Clean
  <1>2. i \in Handler /\ i.mode = "ABANDON"
    BY DEF Called, Handler, Mode
  <1>3. \/ form' = s /\ Finish
        \/ UnlockDoc(g, i)
    BY DEF ShowDoc
  <1>4. /\ s \in Form /\ s.locked = f.locked /\ s.relocker = f.relocker
        /\ ~s.dirty /\ ~s.typing /\ s.key = f.key /\ s.session = f.session
        /\ s.base = f.base /\ s.shown = f.key
    BY <1>1 DEF Called, Form
  <1> HIDE DEF g, i, s
  <1>5. CASE form' = s /\ Finish
    <2>1. Outcome(s)
      BY <1>4, <1>5, FinishOutcome DEF Called
    <2>2. f.locked => Same(f)
      BY <1>4, <1>5 DEF Same
    <2>3. handler'.at # "reply" /\ RequestRead /\ AskedFor(f)
      BY <1>5, DoneTyped DEF Finish, AskedFor
    <2> QED
      BY <1>4, <1>5, <2>1, <2>2, <2>3 DEF Outcome
  <1>6. CASE UnlockDoc(g, i)
    <2>1. Called(g, i)
      BY <1>1, <1>2 DEF Called
    <2>2. Outcome(g)
      BY <1>6, <2>1, UnlockDocOutcome
    <2>3. Outcome(f)
      BY <1>1, <2>2, OutcomeBefore DEF Called
    <2>4. f.locked => Discarding'
      <3> SUFFICES ASSUME f.locked PROVE Discarding'
        OBVIOUS
      <3>1. [g EXCEPT !.relocker = FALSE].locked
        BY <1>1 DEF Form
      <3>2. /\ handler' = [i EXCEPT !.at = "reply"]
            /\ \E key, session :
                 request' = [NoRequest EXCEPT !.type = "UNLOCK", !.key = key,
                               !.data = NoKey, !.session = session,
                               !.status = "sent"]
        BY <1>6, <3>1 DEF UnlockDoc, Send
      <3>3. handler'.at = "reply" /\ request'.type = "UNLOCK"
        BY <1>2, <3>2 DEF Handler, NoRequest
      <3> QED
        BY <3>3 DEF Discarding, Waiting
    <2> QED
      BY <2>3, <2>4
  <1> QED
    BY <1>3, <1>5, <1>6

-----------------------------------------------------------------------------
(* What the invariant needs of the form that a chain of pieces starts with. *)

Suits(f) ==
  /\ f.locked =>
       /\ f.key \in Key /\ f.session \in 1..lastSession
       /\ lease[f.key].session = f.session => Current(f.key, f.base)
  /\ ~UpdateOnly /\ f.locked =>
       f.shown = f.key \/ form'.shown = form'.key \/ Discarding'
  /\ request.type \in Writes /\ request.status = "sent" =>
       f.locked /\ request.key = f.key /\ request.session = f.session

\* The rest of a step that goes on with the form f.
Continues(f) ==
  /\ page.open /\ UNCHANGED <<page, serverVars>>
  /\ orphan' \in BOOLEAN /\ relock' \in Relock /\ faults' \in 0..MaxFaults
  /\ past' \in [settled : BOOLEAN, strayed : BOOLEAN, gaveUp : BOOLEAN]
  /\ Edited' /\ (Discarding' \/ ~f.locked) => past'.settled \/ past'.strayed
  /\ faults' = 0 => ~orphan' /\ request.status # "sent"
  /\ NothingLost' => \A k \in Key : lease[k].session > 0 => OfForm(k, f)

LEMMA GoesOn ==
  ASSUME IInv, NEW f \in Form, Outcome(f), Suits(f), Continues(f)
  PROVE  IInv'
  <1>1. /\ page.open /\ page' = page /\ lease' = lease /\ disk' = disk
        /\ lastSession' = lastSession /\ lastVersion' = lastVersion
    BY DEF Continues, serverVars
  <1>2. TypeOK'
    <2>1. ClientTypeOK'
      BY DEF Continues, Outcome, ClientTypeOK
    <2> QED
      BY <1>1, <2>1 DEF IInv, TypeOK, Continues, Outcome
  <1>3. handler'.at # "reply" =>
          request' = IF request.status = "sent" THEN request ELSE NoRequest
    BY DEF Outcome, RequestRead
  <1>4. /\ request'.status = "served" => request' = NoRequest
        /\ handler'.at \notin {"resume_login", "written"}
    BY <1>3 DEF Outcome, SentFor, AskedFor
  <1>5. KeysGiven'
    <2>1. request'.type # "none" => request'.key \in Key
      BY <1>3 DEF Outcome, SentFor, IInv, KeysGiven, NoRequest
    <2> QED
      BY <1>1, <2>1 DEF Outcome, Suits, Same, IInv, KeysGiven
  <1>6. RequestOfHandler'
    <2>1. SUFFICES ASSUME Waiting'
                   PROVE  /\ ~form'.relocker /\ handler'.mode # "LOAD"
                          /\ request'.key = form'.key
                          /\ request'.type = "WRITE" => ~Unlocks(handler'.mode)
                          /\ IF request'.type = "READU"
                             THEN handler'.mode = "OPEN" /\ ~form'.locked
                             ELSE /\ request'.type \in Writes \cup {"UNLOCK"}
                                  /\ form'.locked
                                  /\ request'.session = form'.session
      BY <1>4 DEF RequestOfHandler, Outcome
    <2>2. SentFor(f)
      BY <1>4, <2>1 DEF Outcome, Waiting
    <2> QED
      BY <2>2 DEF SentFor, Outcome, Writes
  <1>7. WriteOfForm'
    <2>1. CASE handler'.at = "reply"
      BY <2>1 DEF Outcome, SentFor, WriteOfForm, Writes
    <2>2. CASE handler'.at # "reply"
      BY <1>3, <2>2 DEF Outcome, Suits, Same, WriteOfForm, Writes, NoRequest
    <2> QED
      BY <2>1, <2>2
  <1>14. WrittenOf'
    BY <1>4 DEF WrittenOf
  <1>8. QuestionOfForm'
    <2>1. handler'.at = "retry_unlock" => request'.type \in {"none", "UNLOCK"}
      BY <1>3 DEF Outcome, AskedFor, NoRequest
    <2> QED
      BY <2>1 DEF Outcome, AskedFor, SentFor, QuestionOfForm
  <1>9. EditsSettled' /\ ShownIsLocked' /\ WritesItsOwn' /\ RelockerLocked'
    <2>1. EditsSettled'
      BY DEF Continues, Outcome, EditsSettled
    <2>2. ShownIsLocked'
      BY DEF Suits, Outcome, ShownIsLocked
    <2>3. WritesItsOwn'
      <3>1. CASE handler'.at = "reply"
        <4> SUFFICES ASSUME request'.type \in {"WRITE", "WRITEU"}, ~UpdateOnly
                     PROVE  request'.data = request'.key
          BY DEF WritesItsOwn
        <4>1. SentFor(f) /\ f.locked
          BY <3>1 DEF Outcome, SentFor
        <4>2. ~Discarding'
          BY <3>1 DEF Discarding
        <4> QED
          BY <4>1, <4>2 DEF SentFor, Suits, Outcome
      <3>2. CASE handler'.at # "reply"
        BY <1>3, <3>2 DEF IInv, WritesItsOwn, NoRequest
      <3> QED
        BY <3>1, <3>2
    <2> QED
      BY <2>1, <2>2, <2>3 DEF Outcome, RelockerLocked
  <1>10. BaseIsRead'
    BY <1>1 DEF Suits, Outcome, Same, BaseIsRead, Current
  <1>11. AnswerHolds'
    BY <1>4 DEF AnswerHolds, NoRequest, Writes
  <1>12. NoneGivenUp'
    BY <1>3 DEF Continues, NoneGivenUp, NoRequest
  <1>13. LeasesKnown'
    <2> SUFFICES ASSUME NothingLost', NEW k \in Key, lease[k].session > 0
                 PROVE  OfForm(k, form)'
      BY <1>1 DEF LeasesKnown
    <2>1. OfForm(k, f)
      BY DEF Continues
    <2> QED
      BY <1>1, <2>1 DEF OfForm, Outcome, Same
  <1> QED
    BY <1>2, <1>5, <1>6, <1>7, <1>8, <1>9, <1>10, <1>11, <1>12, <1>13, <1>14
    DEF IInv

-----------------------------------------------------------------------------
(* Events.  Nothing is under way when they start a handler.                *)

LEMMA SuitsForm ==
  ASSUME IInv, ~Discarding, NEW f \in Form, f.locked = form.locked,
         f.key = form.key, f.session = form.session, f.base = form.base,
         f.shown = form.shown
  PROVE  Suits(f)
  BY DEF Suits, IInv, KeysGiven, BaseIsRead, ShownIsLocked, WriteOfForm

LEMMA AtRest ==
  ASSUME IInv, page.open, handler.at \notin {"reply", "resume_login"}
  PROVE  /\ faults = 0 => ~orphan /\ request.status # "sent"
         /\ ~Waiting
         /\ NothingLost =>
              \A k \in Key : lease[k].session > 0 => OfForm(k, form)
  BY DEF IInv, Waiting, NoneGivenUp, LeasesKnown, OfGrant, OfCookie

LEMMA EventGoesOn ==
  ASSUME IInv, Event, OrphanKept, past' = past,
         NEW f \in Form, Outcome(f), f.locked = form.locked,
         f.key = form.key, f.session = form.session, f.base = form.base,
         f.shown = form.shown, f.dirty \/ f.typing => Edited,
         f.locked /\ Edited => ~Discarding',
         f.locked /\ form.dirty => form'.dirty
  PROVE  IInv' /\ Decided
  <1>1. /\ page.open /\ handler.at = "done"
        /\ relock' = relock /\ faults' = faults /\ page' = page
        /\ UNCHANGED serverVars
    BY DEF Event, Idle, EventStarts, Blocked
  <1>2. ~Discarding
    BY <1>1 DEF Discarding, Waiting
  <1>3. Suits(f)
    BY <1>2, SuitsForm
  <1>4. Continues(f)
    <2>1. Edited' /\ (Discarding' \/ ~f.locked) =>
            past'.settled \/ past'.strayed
      BY DEF Outcome, Edited, IInv, EditsSettled
    <2>2. NothingLost' => \A k \in Key : lease[k].session > 0 => OfForm(k, f)
      BY <1>1, AtRest DEF NothingLost, OfForm
    <2>3. /\ orphan' \in BOOLEAN /\ relock' \in Relock
          /\ faults' \in 0..MaxFaults
          /\ past' \in [settled : BOOLEAN, strayed : BOOLEAN, gaveUp : BOOLEAN]
      BY <1>1 DEF OrphanKept, IInv, TypeOK, ClientTypeOK
    <2>4. faults' = 0 => ~orphan' /\ request.status # "sent"
      BY <1>1, AtRest DEF OrphanKept
    <2> QED
      BY <1>1, <2>1, <2>2, <2>3, <2>4 DEF Continues
  <1>5. Decided
    BY DEF Decided, IInv, EditsSettled, Edited
  <1> QED
    BY <1>3, <1>4, <1>5, GoesOn

LEMMA StartCalled ==
  ASSUME IInv, NEW f \in Form, f.locked = form.locked, f.key = form.key,
         f.relocker = form.relocker,
         NEW mode \in Mode, NEW next \in Key \cup {NoKey},
         mode # "LOAD", mode = "OPEN" => next \in Key
  PROVE  Called(f, Start(mode, next))
  <1>1. LET h == Start(mode, next) IN
        h \in Handler /\ h.mode = mode /\ h.next = next
    BY DoneTyped DEF Start, Handler
  <1> QED
    BY <1>1 DEF Called, IInv, TypeOK, ClientTypeOK, RelockerLocked, KeysGiven

\* saveandorcleardoc(), called by an event.
LEMMA SaveAndOrClearEvent ==
  ASSUME IInv, Event, OrphanKept, past' = past,
         NEW f \in Form, f = form \/ f = Validated(form),
         NEW mode \in Mode, NEW next \in Key \cup {NoKey},
         mode # "LOAD", mode = "OPEN" => next \in Key,
         SaveAndOrClear(f, Start(mode, next))
  PROVE  IInv' /\ Decided
  <1>1. form \in Form
    BY DEF IInv, TypeOK
  <1>2. /\ f.locked = form.locked /\ f.key = form.key
        /\ f.session = form.session /\ f.base = form.base
        /\ f.shown = form.shown /\ f.relocker = form.relocker
        /\ f.dirty \/ f.typing => Edited
        /\ form.dirty => f.dirty
    BY <1>1, ValidatedForm DEF Edited
  <1>3. Edited => f.dirty \/ f.typing
    BY <1>1 DEF Edited, Validated, Form
  <1>4. Called(f, Start(mode, next))
    BY <1>2, StartCalled
  <1>5. /\ Outcome(f)
        /\ f.locked /\ f.dirty => form'.dirty
        /\ f.locked /\ (f.dirty \/ f.typing) => ~Discarding'
    BY <1>4, SaveAndOrClearOutcome
  <1> QED
    BY <1>2, <1>3, <1>5, EventGoesOn

\* Or the handler is over at once, or has a question.
LEMMA PlainEvent ==
  ASSUME IInv, Event, OrphanKept, past' = past,
         form' = form \/ form' = Validated(form),
         \/ Finish
         \/ Note
         \/ Ask("sure_to_delete", Start("DELETE", NoKey)) /\ form.locked
  PROVE  IInv' /\ Decided
  <1>1. form \in Form /\ request \in Request /\ (form.relocker => form.locked)
    BY DEF IInv, TypeOK, ClientTypeOK, RelockerLocked
  <1>2. PICK f \in Form : form' = f /\ (f = form \/ f = Validated(form))
    BY <1>1, ValidatedForm
  <1>3. /\ f.locked = form.locked /\ f.key = form.key
        /\ f.session = form.session /\ f.base = form.base
        /\ f.shown = form.shown /\ f.relocker = form.relocker
        /\ f.dirty \/ f.typing => Edited
        /\ form.dirty => f.dirty
    BY <1>1, <1>2, ValidatedForm DEF Edited
  <1>4. Called(f, Start("DELETE", NoKey))
    BY <1>3, StartCalled DEF Mode
  <1>5. Outcome(f)
    BY <1>1, <1>2, <1>3, <1>4, FinishOutcome, AskOutcome
  <1>6. handler'.at \in {"done", "note", "sure_to_delete"}
    BY <1>4, DoneTyped DEF Finish, Note, Ask, Called, Handler
  <1>7. ~Discarding'
    BY <1>6 DEF Discarding, Waiting
  <1> QED
    BY <1>2, <1>3, <1>5, <1>7, EventGoesOn

LEMMA ValidatedTyped == form \in Form => Validated(form) \in Form
  BY ValidatedForm

LEMMA OpenDocEvent ==
  ASSUME IInv, Event, OrphanKept, past' = past, NEW k \in Key, OpenDoc(k)
  PROVE  IInv' /\ Decided
  <1>1. CASE UNCHANGED form /\ Finish
    BY <1>1, PlainEvent
  <1>2. CASE SaveAndOrClear(form, Start("OPEN", k))
    BY <1>2, SaveAndOrClearEvent DEF IInv, TypeOK, Mode
  <1> QED
    BY <1>1, <1>2 DEF OpenDoc

LEMMA EnterKeyKeeps ==
  ASSUME IInv, NEW k \in Key, EnterKey(k)
  PROVE  IInv' /\ Decided
  BY OpenDocEvent DEF EnterKey

LEMMA EditReleaseKeeps ==
  ASSUME IInv, EditRelease
  PROVE  IInv' /\ Decided
  <1>1. form.key \in Key
    BY DEF EditRelease, IInv, TypeOK, Form
  <1>2. CASE form.locked
    BY <1>2, SaveAndOrClearEvent DEF EditRelease, IInv, TypeOK, Mode
  <1>3. CASE ~form.locked
    BY <1>1, <1>3, OpenDocEvent DEF EditRelease
  <1> QED
    BY <1>2, <1>3

LEMMA SaveRecordKeeps ==
  ASSUME IInv, SaveRecord
  PROVE  IInv' /\ Decided
  <1>1. Event /\ OrphanKept /\ past' = past
    BY DEF SaveRecord
  <1>2. \/ UNCHANGED form /\ Finish
        \/ SaveAndOrClear(Validated(form), Start("SAVE", NoKey))
        \/ form' = Validated(form) /\ Note
    BY DEF SaveRecord
  <1>3. Validated(form) \in Form
    BY ValidatedTyped DEF IInv, TypeOK
  <1>4. CASE SaveAndOrClear(Validated(form), Start("SAVE", NoKey))
    BY <1>1, <1>3, <1>4, SaveAndOrClearEvent DEF Mode
  <1> QED
    BY <1>1, <1>2, <1>4, PlainEvent

LEMMA LeaveRecordKeeps ==
  ASSUME IInv, NEW mode \in {"CLOSE", "CLEAR", "NEW", "PRINT"},
         LeaveRecord(mode)
  PROVE  IInv' /\ Decided
  BY SaveAndOrClearEvent DEF LeaveRecord, IInv, TypeOK, Mode

LEMMA DeleteRecordKeeps ==
  ASSUME IInv, DeleteRecord
  PROVE  IInv' /\ Decided
  BY PlainEvent DEF DeleteRecord

\* The user types, or takes it back: no handler is under way then or after.
LEMMA EditingKeeps ==
  ASSUME IInv, Event, UNCHANGED <<handler, request>>, OrphanKept,
         form' \in Form, form'.locked = form.locked,
         form'.key = form.key, form'.session = form.session,
         form'.base = form.base, form'.shown = form.shown,
         form'.relocker = form.relocker,
         past' \in [settled : BOOLEAN, strayed : BOOLEAN, gaveUp : BOOLEAN],
         past'.strayed = past.strayed, past'.gaveUp = past.gaveUp,
         Edited' /\ ~form.locked => past'.settled \/ past'.strayed
  PROVE  IInv'
  <1>1. /\ page.open /\ handler.at = "done"
        /\ relock' = relock /\ faults' = faults /\ page' = page
        /\ lease' = lease /\ disk' = disk
        /\ lastSession' = lastSession /\ lastVersion' = lastVersion
        /\ handler' = handler /\ request' = request
        /\ orphan' = orphan
    BY DEF Event, Idle, EventStarts, Blocked, serverVars, OrphanKept, IInv,
           TypeOK, ClientTypeOK
  <1>2. ~Waiting /\ ~Waiting' /\ ~Discarding /\ ~Discarding'
    BY <1>1 DEF Waiting, Discarding
  <1>3. TypeOK'
    BY <1>1 DEF IInv, TypeOK, ClientTypeOK
  <1>4. KeysGiven' /\ WriteOfForm'
    BY <1>1 DEF IInv, KeysGiven, WriteOfForm
  <1>5. RequestOfHandler' /\ QuestionOfForm' /\ EditsSettled'
    BY <1>1, <1>2
    DEF IInv, RequestOfHandler, QuestionOfForm, EditsSettled
  <1>6. ShownIsLocked' /\ RelockerLocked' /\ BaseIsRead'
    BY <1>1, <1>2 DEF IInv, ShownIsLocked, RelockerLocked, BaseIsRead, Current
  <1>9. WritesItsOwn'
    BY <1>1 DEF IInv, WritesItsOwn
  <1>7. AnswerHolds' /\ NoneGivenUp' /\ WrittenOf'
    BY <1>1 DEF IInv, AnswerHolds, Current, NoneGivenUp, WrittenOf
  <1>8. LeasesKnown'
    BY <1>1, <1>2
    DEF IInv, LeasesKnown, NothingLost, OfForm, OfGrant, OfCookie
  <1> QED
    BY <1>3, <1>4, <1>5, <1>6, <1>7, <1>8, <1>9 DEF IInv

LEMMA TypeKeeps ==
  ASSUME IInv, Type
  PROVE  IInv' /\ Decided
  <1>1. Event /\ UNCHANGED <<handler, request>> /\ OrphanKept /\ form.locked
    BY DEF Type
  <1>2. /\ form' \in Form /\ form'.locked = form.locked
        /\ form'.key = form.key /\ form'.session = form.session
        /\ form'.base = form.base /\ form'.shown = form.shown
        /\ form'.relocker = form.relocker /\ form'.dirty
    <2>1. form \in Form
      BY DEF IInv, TypeOK
    <2> QED
      BY <2>1 DEF Type, Form
  <1>3. /\ past' \in [settled : BOOLEAN, strayed : BOOLEAN, gaveUp : BOOLEAN]
        /\ past'.strayed = past.strayed /\ past'.gaveUp = past.gaveUp
    BY DEF Type, IInv, TypeOK
  <1> QED
    BY <1>1, <1>2, <1>3, EditingKeeps DEF Decided

LEMMA UndoKeeps ==
  ASSUME IInv, Undo
  PROVE  IInv' /\ Decided
  <1>1. Event /\ UNCHANGED <<handler, request>> /\ OrphanKept
    BY DEF Undo
  <1>2. /\ form' \in Form /\ form'.locked = form.locked
        /\ form'.key = form.key /\ form'.session = form.session
        /\ form'.base = form.base /\ form'.shown = form.shown
        /\ form'.relocker = form.relocker
        /\ form'.dirty => form.dirty
        /\ form.dirty /\ ~form'.dirty => form.first
        /\ ~form'.typing
    BY DEF Undo, IInv, TypeOK, Form
  <1>3. /\ past' \in [settled : BOOLEAN, strayed : BOOLEAN, gaveUp : BOOLEAN]
        /\ past'.strayed = past.strayed /\ past'.gaveUp = past.gaveUp
        /\ past.settled => past'.settled
        /\ form.first => past'.settled
    BY DEF Undo, IInv, TypeOK, Form
  <1>4. Edited' /\ ~form.locked => past'.settled \/ past'.strayed
    BY <1>2, <1>3 DEF Edited, IInv, EditsSettled
  <1> QED
    BY <1>1, <1>2, <1>3, <1>4, EditingKeeps DEF Decided

LEMMA LeaveFieldKeeps ==
  ASSUME IInv, LeaveField
  PROVE  IInv' /\ Decided
  <1>1. /\ Event /\ UNCHANGED <<handler, request>> /\ OrphanKept
        /\ past' = past /\ form' = Validated(form)
    BY DEF LeaveField
  <1>2. /\ form' \in Form /\ form'.locked = form.locked
        /\ form'.key = form.key /\ form'.session = form.session
        /\ form'.base = form.base /\ form'.shown = form.shown
        /\ form'.relocker = form.relocker
        /\ form.dirty => form'.dirty
        /\ Edited' => Edited
    BY <1>1, ValidatedForm DEF IInv, TypeOK, Edited
  <1>3. Edited' /\ ~form.locked => past'.settled \/ past'.strayed
    BY <1>1, <1>2 DEF IInv, EditsSettled
  <1> QED
    BY <1>1, <1>2, <1>3, EditingKeeps DEF Decided, IInv, TypeOK

-----------------------------------------------------------------------------
(* A handler goes on with a reply, or without it.                          *)

LEMMA SendOutcome ==
  ASSUME NEW f, NEW h, Called(f, h), f.locked, ~f.relocker, form' = f,
         NEW type \in {"DELETE", "UNLOCK"},
         Send(type, f.key, f.session, NoKey, h)
  PROVE  /\ Outcome(f)
         /\ handler'.at = "reply" /\ request'.type = type
  <1>1. /\ handler' = [h EXCEPT !.at = "reply"]
        /\ request' = [NoRequest EXCEPT !.type = type, !.key = f.key,
                         !.data = NoKey, !.session = f.session,
                         !.status = "sent"]
    BY DEF Send
  <1>2. /\ handler' \in Handler /\ handler'.at = "reply"
        /\ handler'.mode = h.mode /\ handler'.next = h.next
    BY <1>1 DEF Called, Handler, YieldPoint
  <1>3. /\ request' \in Request /\ request'.status = "sent"
        /\ request'.type = type /\ request'.key = f.key
        /\ request'.session = f.session
    BY <1>1 DEF NoRequest, Request, Form, Called
  <1>4. SentFor(f)
    BY <1>2, <1>3 DEF SentFor, Called, Writes
  <1> QED
    BY <1>2, <1>3, <1>4 DEF Outcome, Same, Called

\* What going on with the answer r to a request leaves, from a form f.
Decides(r, f) ==
  LET decided == past.settled \/ past.strayed \/ Acknowledged(r) IN
  /\ Edited' /\ (Discarding' \/ ~f.locked) => decided
  /\ form.dirty /\ ~form'.dirty => decided

StillKnown(r, f) ==
  /\ NothingLost /\ r = request /\ request.status = "served"
  /\ handler.mode = "LOAD" => r.result = "ok"
  => \A k \in Key : lease[k].session > 0 => OfForm(k, f)

\* An answer that was read as it came, or a failure.
AnswerTo(r) ==
  /\ r \in Request /\ r.type = request.type /\ r.result # "login"
  /\ r.result # "failed" => r = request /\ request.status = "served"

LEMMA GotRecordGoesOn ==
  ASSUME IInv, handler.at = "reply", NEW r, AnswerTo(r),
         r.type = "READU", GotRecord(r, form, handler)
  PROVE  \E f \in Form :
           Outcome(f) /\ Suits(f) /\ Decides(r, f) /\ StillKnown(r, f)
  <1> DEFINE g == [form EXCEPT !.locked = r.result = "ok",
                     !.relocker = r.result = "ok", !.session = r.grant,
                     !.base = r.version, !.isnew = r.version = 0]
             d == [g EXCEPT !.isnew = form.isnew]
  <1>1. /\ form \in Form /\ handler \in Handler /\ request \in Request
        /\ r \in Request
    BY DEF IInv, TypeOK, ClientTypeOK, AnswerTo
  <1>2. /\ Waiting /\ handler.mode = "OPEN" /\ ~form.locked
        /\ request.type = "READU" /\ request.key = form.key
        /\ request.key \in Key /\ handler.next \in Key /\ page.open
    BY DEF IInv, RequestOfHandler, KeysGiven, Waiting, AnswerTo
  <1>3. /\ g \in Form /\ g.locked = (r.result = "ok")
        /\ g.relocker = g.locked /\ g.session = r.grant
        /\ g.base = r.version /\ g.key = form.key /\ g.shown = form.shown
        /\ g.dirty = form.dirty /\ g.typing = form.typing
    BY <1>1 DEF Form, Request
  <1>4. \/ r.result = "failed" /\ form' = g /\ Note
        \/ /\ r.version = 0 /\ (UpdateOnly \/ ~g.locked)
           /\ form' = d /\ Note
        \/ ~g.locked /\ form' = d /\ Ask("view_only", handler)
        \/ ShowDoc(g, handler)
    BY Zenon DEF GotRecord
  <1> HIDE DEF g
  <1>5. /\ d \in Form /\ d.locked = (r.result = "ok")
        /\ d.relocker = d.locked /\ d.session = r.grant
        /\ d.base = r.version /\ d.key = form.key /\ d.shown = form.shown
        /\ d.dirty = form.dirty /\ d.typing = form.typing
    BY <1>1, <1>3 DEF Form
  <1> HIDE DEF d
  <1>6. ASSUME NEW f \in Form, f.locked = (r.result = "ok"),
               f.session = r.grant, f.base = r.version, f.key = form.key,
               f.dirty = form.dirty, f.typing = form.typing,
               Outcome(f),
               ~UpdateOnly /\ f.locked => form'.shown = form'.key \/ Discarding'
        PROVE  Suits(f) /\ Decides(r, f) /\ StillKnown(r, f)
    <2>1. f.locked => /\ r = request /\ request.status = "served"
                      /\ request.result = "ok"
      BY <1>6 DEF AnswerTo
    <2>2. Suits(f)
      BY <1>2, <1>6, <2>1 DEF Suits, IInv, AnswerHolds, Writes
    <2>3. Edited => past.settled \/ past.strayed
      BY <1>2 DEF IInv, EditsSettled
    <2>4. Decides(r, f)
      BY <1>6, <2>3 DEF Decides, Outcome, Edited
    <2>5. StillKnown(r, f)
      <3> SUFFICES ASSUME NothingLost, r = request,
                          NEW k \in Key, lease[k].session > 0
                   PROVE  OfForm(k, f)
        BY DEF StillKnown
      <3>1. OfGrant(k)
        BY <1>2 DEF IInv, LeasesKnown, OfForm, OfCookie
      <3> QED
        BY <1>2, <1>6, <3>1 DEF OfGrant, OfForm
    <2> QED
      BY <2>2, <2>4, <2>5
  <1>7. Called(g, handler) /\ Called(d, handler)
    BY <1>1, <1>2, <1>3, <1>5 DEF Called
  <1>8. CASE r.result = "failed" /\ form' = g /\ Note
    <2>1. Outcome(g)
      BY <1>1, <1>3, <1>8, FinishOutcome
    <2> QED
      BY <1>3, <1>6, <1>8, <2>1
  <1>9. CASE /\ r.version = 0 /\ (UpdateOnly \/ ~g.locked)
             /\ form' = d /\ Note
    <2>1. Outcome(d)
      BY <1>1, <1>5, <1>9, FinishOutcome
    <2> QED
      BY <1>3, <1>5, <1>6, <1>9, <2>1
  <1>10. CASE ~g.locked /\ form' = d /\ Ask("view_only", handler)
    <2>1. Outcome(d)
      BY <1>3, <1>5, <1>7, <1>10, AskOutcome
    <2> QED
      BY <1>3, <1>5, <1>6, <1>10, <2>1
  <1>11. CASE ShowDoc(g, handler)
    <2>1. /\ Outcome(g)
          /\ g.locked => form'.shown = form'.key \/ Discarding'
      BY <1>7, <1>11, ShowDocOutcome
    <2> QED
      BY <1>3, <1>6, <2>1
  <1> QED
    BY <1>4, <1>8, <1>9, <1>10, <1>11

LEMMA WaitingForForm ==
  ASSUME IInv, handler.at = "reply", request.type \in Writes \cup {"UNLOCK"},
         handler.mode # "LOAD"
  PROVE  /\ form.locked /\ form.key \in Key /\ request.key = form.key
         /\ request.session = form.session /\ form.session > 0
         /\ ~form.relocker /\ page.open
         /\ form \in Form /\ handler \in Handler /\ request \in Request
         /\ Called(form, handler)
         /\ NothingLost =>
              \A k \in Key : lease[k].session > 0 => OfForm(k, form)
  <1>1. /\ Waiting /\ request.type # "READU" /\ request.type # "none"
    BY DEF Waiting, Writes
  <1>2. /\ form.locked /\ form.key \in Key /\ request.key = form.key
        /\ request.session = form.session /\ form.session \in 1..lastSession
        /\ ~form.relocker /\ page.open
    BY <1>1 DEF IInv, RequestOfHandler, KeysGiven
  <1>3. /\ form \in Form /\ handler \in Handler /\ request \in Request
        /\ lastSession \in Nat
    BY DEF IInv, TypeOK, ClientTypeOK
  <1>4. Called(form, handler)
    BY <1>2, <1>3 DEF Called, IInv, KeysGiven
  <1>5. NothingLost =>
          \A k \in Key : lease[k].session > 0 => OfForm(k, form)
    BY <1>1, <1>2 DEF IInv, LeasesKnown, OfGrant, OfCookie
  <1> QED
    BY <1>2, <1>3, <1>4, <1>5

\* A request that failed leaves the form as it is, but for the relocker.
LEMMA FailedGoesOn ==
  ASSUME IInv, handler.at = "reply", request.type \in Writes \cup {"UNLOCK"},
         handler.mode # "LOAD", NEW r, AnswerTo(r), NEW f \in Form,
         f = form \/ f = [form EXCEPT !.relocker = TRUE],
         Outcome(f), form' = f, Discarding' <=> request.type = "UNLOCK"
  PROVE  Suits(f) /\ Decides(r, f) /\ StillKnown(r, f)
  <1>1. /\ f.locked /\ f.key = form.key /\ f.session = form.session
        /\ f.base = form.base /\ f.shown = form.shown
        /\ f.dirty = form.dirty /\ f.typing = form.typing
    BY WaitingForForm DEF Form
  <1>2. ~UpdateOnly => f.shown = f.key \/ Discarding'
    BY <1>1, WaitingForForm DEF IInv, ShownIsLocked, Discarding
  <1>3. Suits(f)
    BY <1>1, <1>2, WaitingForForm
    DEF Suits, IInv, KeysGiven, BaseIsRead, WriteOfForm
  <1>4. Edited /\ request.type = "UNLOCK" => past.settled \/ past.strayed
    BY DEF IInv, EditsSettled, Discarding, Waiting
  <1>5. Decides(r, f)
    BY <1>1, <1>4 DEF Decides, Edited
  <1>6. StillKnown(r, f)
    BY <1>1, WaitingForForm DEF StillKnown, OfForm
  <1> QED
    BY <1>3, <1>5, <1>6

\* The user is warned of what was written, before the form goes on.
Warned(r) ==
  /\ r = request /\ request.status = "served" /\ request.result = "ok"
  /\ request.type \in {"WRITE", "WRITEU"}
  /\ form' = [form EXCEPT !.base = r.version] /\ Ask("written", handler)

LEMMA GotWrittenGoesOn ==
  ASSUME IInv, handler.at = "reply", NEW r, AnswerTo(r),
         r.type \in {"WRITE", "WRITEU"}, GotWritten(r, form, handler)
  PROVE  \/ Warned(r)
         \/ \E f \in Form :
              Outcome(f) /\ Suits(f) /\ Decides(r, f) /\ StillKnown(r, f)
  <1> DEFINE w == ~Unlocks(handler.mode)
             b == [form EXCEPT !.base = r.version]
             g == [form EXCEPT !.locked = w, !.relocker = w,
                     !.base = r.version, !.isnew = FALSE, !.typing = FALSE,
                     !.first = FALSE]
  <1>1. request.type \in Writes /\ request.type = r.type
    BY DEF AnswerTo, Writes
  <1>2. handler.mode # "LOAD" /\ ~Discarding
    BY <1>1 DEF IInv, RequestOfHandler, Waiting, Discarding, Writes
  <1>3. /\ form.locked /\ form.key \in Key /\ request.key = form.key
        /\ request.session = form.session /\ form.session > 0
        /\ ~form.relocker /\ page.open
        /\ form \in Form /\ handler \in Handler /\ request \in Request
        /\ Called(form, handler)
    BY <1>1, <1>2, WaitingForForm
  <1>4. CASE r.result = "failed"
    <2>1. form' = form /\ Note
      BY <1>4 DEF GotWritten
    <2>2. Outcome(form)
      BY <1>3, <2>1, FinishOutcome
    <2>3. ~Discarding'
      BY <2>1, DoneTyped DEF Note, Discarding, Waiting
    <2> QED
      BY <1>1, <1>2, <1>3, <2>1, <2>2, <2>3, FailedGoesOn DEF Writes
  <1>5. CASE r.result # "failed"
    <2>1. r = request /\ request.status = "served" /\ request.result = "ok"
      BY <1>1, <1>3, <1>5 DEF AnswerTo, IInv, AnswerHolds, Request, Writes
    <2>2. Warned(r) \/ ClearOrUnlock(g, handler)
      <3>1. Written(b, handler) \/ (form' = b /\ Ask("written", handler))
        BY <1>5 DEF GotWritten
      <3>2. Written(b, handler) => ClearOrUnlock(g, handler)
        <4>1. [b EXCEPT !.locked = w, !.relocker = w, !.isnew = FALSE,
                        !.typing = FALSE, !.first = FALSE] = g
          BY <1>3 DEF Form
        <4> QED
          BY <4>1 DEF Written
      <3> QED
        BY <1>1, <2>1, <3>1, <3>2 DEF Warned
    <2>3. /\ g \in Form /\ g.locked = w /\ g.relocker = w
          /\ g.key = form.key /\ g.session = form.session
          /\ g.base = r.version /\ g.shown = form.shown
          /\ g.dirty = form.dirty
      <3>1. r.version \in Nat /\ w \in BOOLEAN
        BY <1>3, <2>1 DEF Request
      <3> HIDE DEF w
      <3> QED
        BY <1>3, <3>1 DEF Form
    <2>4. \A k \in Key : lease[k].session > 0 /\ OfForm(k, form) =>
                          w /\ disk[k].own
      BY <1>1, <1>2, <1>3, <2>1
      DEF OfForm, IInv, AnswerHolds, RequestOfHandler, Waiting
    <2>5. w /\ lease[form.key].session = form.session => disk[form.key].own
      BY <1>1, <1>3, <2>1 DEF IInv, AnswerHolds
    <2> HIDE DEF g
    <2>6. Called(g, handler)
      BY <1>3, <2>3 DEF Called
    <2>7. ClearOrUnlock(g, handler) => Outcome(g)
      BY <2>6, ClearOrUnlockOutcome
    <2>8. Suits(g)
      BY <1>1, <1>2, <1>3, <2>1, <2>3, <2>5
      DEF Suits, Current, IInv, KeysGiven, ShownIsLocked
    <2>9. Decides(r, g)
      BY <1>1, <2>1 DEF Decides, Acknowledged, Writes
    <2>10. StillKnown(r, g)
      BY <1>1, <1>2, <1>3, <2>3, <2>4, WaitingForForm DEF StillKnown, OfForm
    <2> QED
      BY <2>2, <2>3, <2>7, <2>8, <2>9, <2>10
  <1> QED
    BY <1>4, <1>5

LEMMA GotDeletedGoesOn ==
  ASSUME IInv, handler.at = "reply", NEW r, AnswerTo(r),
         r.type = "DELETE", GotDeleted(r, form, handler)
  PROVE  \E f \in Form :
           Outcome(f) /\ Suits(f) /\ Decides(r, f) /\ StillKnown(r, f)
  <1>1. request.type = "DELETE" /\ request.type \in Writes
    BY DEF AnswerTo, Writes
  <1>2. handler.mode # "LOAD" /\ ~Discarding
    BY <1>1 DEF IInv, RequestOfHandler, Waiting, Discarding
  <1>3. /\ form.locked /\ form.key \in Key /\ request.key = form.key
        /\ request.session = form.session /\ form.session > 0
        /\ ~form.relocker /\ page.open
        /\ form \in Form /\ handler \in Handler /\ request \in Request
        /\ Called(form, handler)
    BY <1>1, <1>2, WaitingForForm
  <1>4. CASE r.result = "failed"
    <2> DEFINE g == [form EXCEPT !.relocker = TRUE]
    <2>1. form' = g /\ Note
      BY <1>4 DEF GotDeleted
    <2>2. g \in Form /\ g.locked
      BY <1>3 DEF Form
    <2> HIDE DEF g
    <2>3. Outcome(g)
      BY <1>3, <2>1, <2>2, FinishOutcome
    <2>4. ~Discarding'
      BY <2>1, DoneTyped DEF Note, Discarding, Waiting
    <2> QED
      BY <1>1, <1>2, <1>3, <2>1, <2>2, <2>3, <2>4, FailedGoesOn DEF g
  <1>5. CASE r.result # "failed"
    <2> DEFINE g == [form EXCEPT !.locked = FALSE]
    <2>1. r = request /\ request.status = "served" /\ request.result = "ok"
      BY <1>1, <1>3, <1>5 DEF AnswerTo, IInv, AnswerHolds, Request
    <2>2. form' = g /\ Ask("deleted", handler)
      BY <1>5 DEF GotDeleted
    <2>3. g \in Form /\ ~g.locked /\ ~g.relocker
      BY <1>3 DEF Form
    <2>4. \A k \in Key : lease[k].session > 0 => ~OfForm(k, form)
      BY <1>1, <1>3, <2>1 DEF OfForm, IInv, AnswerHolds
    <2> HIDE DEF g
    <2>5. Called(g, handler)
      BY <1>3, <2>3 DEF Called
    <2>6. Outcome(g)
      BY <2>2, <2>3, <2>5, AskOutcome
    <2>7. Suits(g)
      BY <2>1, <2>3 DEF Suits
    <2>8. Decides(r, g)
      BY <1>1, <2>1 DEF Decides, Acknowledged
    <2>9. StillKnown(r, g)
      BY <1>1, <1>2, <2>4, WaitingForForm DEF StillKnown
    <2> QED
      BY <2>3, <2>6, <2>7, <2>8, <2>9
  <1> QED
    BY <1>4, <1>5

LEMMA GotUnlockedGoesOn ==
  ASSUME IInv, handler.at = "reply", NEW r, AnswerTo(r),
         r.type = "UNLOCK", GotUnlocked(r, form, handler)
  PROVE  \E f \in Form :
           Outcome(f) /\ Suits(f) /\ Decides(r, f) /\ StillKnown(r, f)
  <1>1. request.type = "UNLOCK" /\ Waiting /\ Discarding
    BY DEF AnswerTo, Waiting, Discarding
  <1>2. Edited => past.settled \/ past.strayed
    BY <1>1 DEF IInv, EditsSettled
  <1>3. CASE handler.mode = "LOAD"
    <2>1. form' = form /\ Finish
      BY <1>3 DEF GotUnlocked
    <2>2. ~form.locked /\ page.open /\ form \in Form /\ request \in Request
      BY <1>1, <1>3
      DEF IInv, TypeOK, ClientTypeOK, RequestOfHandler, KeysGiven
    <2>3. Outcome(form)
      BY <2>1, <2>2, FinishOutcome DEF IInv, RelockerLocked
    <2>4. Suits(form)
      BY <1>1, <2>2 DEF Suits, Writes
    <2>5. Decides(r, form)
      BY <1>2, <2>1 DEF Decides, Edited
    <2>6. StillKnown(r, form)
      <3> SUFFICES ASSUME NothingLost, r = request, r.result = "ok",
                          request.status = "served",
                          NEW k \in Key, lease[k].session > 0
                   PROVE  FALSE
        BY <1>3 DEF StillKnown
      <3>1. OfCookie(k)
        BY <1>1, <2>2 DEF IInv, LeasesKnown, OfForm, OfGrant
      <3> QED
        BY <1>1, <2>2, <3>1 DEF OfCookie, IInv, AnswerHolds
    <2> QED
      BY <2>2, <2>3, <2>4, <2>5, <2>6
  <1>4. CASE handler.mode # "LOAD"
    <2>1. /\ form.locked /\ form.key \in Key /\ request.key = form.key
          /\ request.session = form.session /\ form.session > 0
          /\ ~form.relocker /\ page.open
          /\ form \in Form /\ handler \in Handler /\ request \in Request
          /\ Called(form, handler)
      BY <1>1, <1>4, WaitingForForm
    <2>2. CASE r.result = "failed"
      <3>1. form' = form /\ Ask("retry_unlock", handler)
        BY <1>4, <2>2 DEF GotUnlocked
      <3>2. Outcome(form)
        BY <1>1, <2>1, <3>1, AskOutcome
      <3>3. Discarding'
        BY <2>1, <3>1 DEF Ask, Discarding, Handler
      <3> QED
        BY <1>1, <1>4, <2>1, <3>1, <3>2, <3>3, FailedGoesOn
    <2>3. CASE r.result # "failed"
      <3> DEFINE g == [form EXCEPT !.locked = FALSE]
      <3>1. r = request /\ request.status = "served" /\ request.result = "ok"
        BY <1>1, <2>1, <2>3 DEF AnswerTo, IInv, AnswerHolds, Request
      <3>2. Unlocked(form, handler)
        BY <1>4, <2>3 DEF GotUnlocked
      <3>3. /\ g \in Form /\ ~g.locked
            /\ g.dirty = form.dirty /\ g.typing = form.typing
        BY <2>1 DEF Form
      <3>4. Outcome(g)
        BY <2>1, <3>2, UnlockedOutcome
      <3> HIDE DEF g
      <3>5. \A k \in Key : lease[k].session > 0 => ~OfForm(k, form)
        BY <1>1, <2>1, <3>1 DEF OfForm, IInv, AnswerHolds
      <3>6. Suits(g)
        BY <3>1, <3>3 DEF Suits
      <3>7. Decides(r, g)
        BY <1>2, <3>3, <3>4 DEF Decides, Edited, Outcome
      <3>8. StillKnown(r, g)
        BY <1>1, <1>4, <3>5, WaitingForForm DEF StillKnown
      <3> QED
        BY <3>3, <3>4, <3>6, <3>7, <3>8
    <2> QED
      BY <2>2, <2>3
  <1> QED
    BY <1>3, <1>4

LEMMA GotGoesOn ==
  ASSUME IInv, handler.at = "reply", NEW r, AnswerTo(r),
         Got(r, form, handler)
  PROVE  \/ Warned(r)
         \/ \E f \in Form :
              Outcome(f) /\ Suits(f) /\ Decides(r, f) /\ StillKnown(r, f)
  <1>1. r.type \in {"READU", "WRITE", "WRITEU", "DELETE", "UNLOCK"}
    BY DEF IInv, RequestOfHandler, Waiting, Writes, AnswerTo
  <1>2. CASE r.type = "READU"
    BY <1>2, GotRecordGoesOn DEF Got
  <1>3. CASE r.type \in {"WRITE", "WRITEU"}
    BY <1>3, GotWrittenGoesOn DEF Got
  <1>4. CASE r.type = "DELETE"
    BY <1>4, GotDeletedGoesOn DEF Got
  <1>5. CASE r.type = "UNLOCK"
    BY <1>5, GotUnlockedGoesOn DEF Got
  <1> QED
    BY <1>1, <1>2, <1>3, <1>4, <1>5

\* The same request once more, in a step that changes nothing else of it.
LEMMA SendAgainKeeps ==
  ASSUME IInv, Waiting, SendAgain, form' = form, page' = page,
         UNCHANGED serverVars,
         orphan' \in BOOLEAN, relock' \in Relock, faults' \in 0..MaxFaults,
         past' \in [settled : BOOLEAN, strayed : BOOLEAN, gaveUp : BOOLEAN],
         past.settled => past'.settled, past.strayed => past'.strayed,
         faults' = 0 => ~orphan',
         NothingLost' => NothingLost /\ request.result # "ok"
  PROVE  IInv'
  <1>1. /\ lease' = lease /\ disk' = disk /\ page' = page /\ form' = form
        /\ lastSession' = lastSession /\ lastVersion' = lastVersion
    BY DEF serverVars
  <1>2. handler \in Handler /\ request \in Request
    BY DEF IInv, TypeOK, ClientTypeOK
  <1>3. /\ handler' \in Handler /\ handler'.at = "reply"
        /\ handler'.mode = handler.mode /\ handler'.next = handler.next
    BY <1>2 DEF SendAgain, Handler, YieldPoint
  <1>4. /\ request' \in Request /\ request'.type = request.type
        /\ request'.key = request.key /\ request'.session = request.session
        /\ request'.data = request.data /\ request'.status = "sent"
    BY <1>2 DEF SendAgain, Request
  <1>5. Waiting' /\ (Discarding' => Discarding)
    BY <1>3, <1>4 DEF Waiting, Discarding
  <1>6. TypeOK'
    <2>1. ClientTypeOK'
      BY <1>3, <1>4 DEF ClientTypeOK
    <2> QED
      BY <1>1, <2>1 DEF IInv, TypeOK
  <1>7. page.open
    BY DEF IInv, KeysGiven, Waiting
  <1>8. KeysGiven'
    BY <1>1, <1>3, <1>4, <1>7 DEF IInv, KeysGiven
  <1>9. RequestOfHandler' /\ QuestionOfForm'
    BY <1>1, <1>3, <1>4, <1>5 DEF IInv, RequestOfHandler, QuestionOfForm
  <1>10. WriteOfForm'
    BY <1>1, <1>4 DEF IInv, RequestOfHandler, WriteOfForm, Writes
  <1>11. EditsSettled'
    BY <1>1, <1>5 DEF IInv, EditsSettled, Edited
  <1>12. ShownIsLocked'
    <2>1. Discarding => Discarding'
      BY <1>4, <1>5 DEF Discarding, Waiting
    <2> QED
      BY <1>1, <2>1 DEF IInv, ShownIsLocked
  <1>13. WritesItsOwn' /\ RelockerLocked' /\ BaseIsRead'
    BY <1>1, <1>4
    DEF IInv, WritesItsOwn, RelockerLocked, BaseIsRead, Current
  <1>14. AnswerHolds' /\ NoneGivenUp' /\ WrittenOf'
    BY <1>3, <1>4 DEF AnswerHolds, NoneGivenUp, WrittenOf
  <1>15. LeasesKnown'
    <2> SUFFICES ASSUME NothingLost', NEW k \in Key, lease[k].session > 0
                 PROVE  OfForm(k, form)' \/ OfCookie(k)'
      BY <1>1 DEF LeasesKnown
    <2>1. OfForm(k, form) \/ OfCookie(k)
      BY DEF IInv, LeasesKnown, OfGrant
    <2> QED
      BY <1>1, <1>3, <1>4, <1>5, <2>1 DEF OfForm, OfCookie
  <1> QED
    BY <1>6, <1>8, <1>9, <1>10, <1>11, <1>12, <1>13, <1>14, <1>15 DEF IInv

\* "Please login": the request and its answer stay.
LEMMA AskLoginKeeps ==
  ASSUME IInv, ReplyIn, request.result = "login", AskLogin,
         form' = form, past' = past, page' = page, relock' = relock,
         faults' = faults, OrphanKept, UNCHANGED serverVars
  PROVE  IInv'
  <1>1. /\ lease' = lease /\ disk' = disk /\ page' = page /\ form' = form
        /\ lastSession' = lastSession /\ lastVersion' = lastVersion
        /\ request' = request /\ relock' = relock /\ faults' = faults
        /\ past' = past
    BY DEF serverVars, AskLogin
  <1>2. handler \in Handler /\ request \in Request /\ orphan \in BOOLEAN
    BY DEF IInv, TypeOK, ClientTypeOK
  <1>3. /\ handler' \in Handler /\ handler'.at = "resume_login"
        /\ handler'.mode = handler.mode /\ handler'.next = handler.next
    BY <1>2 DEF AskLogin, Handler, YieldPoint, Question
  <1>4. handler.at = "reply" /\ request.status = "served"
    BY DEF ReplyIn
  <1>5. Waiting /\ Waiting' /\ (Discarding' <=> Discarding)
    BY <1>1, <1>3, <1>4 DEF Waiting, Discarding
  <1>6. orphan' = orphan
    BY <1>2, <1>3 DEF OrphanKept
  <1>7. TypeOK'
    <2>1. ClientTypeOK'
      BY <1>1, <1>3, <1>6 DEF IInv, TypeOK, ClientTypeOK
    <2> QED
      BY <1>1, <2>1 DEF IInv, TypeOK
  <1>8. KeysGiven' /\ WriteOfForm'
    BY <1>1, <1>3, <1>4 DEF IInv, KeysGiven, WriteOfForm
  <1>9. RequestOfHandler' /\ QuestionOfForm'
    BY <1>1, <1>3, <1>4, <1>5 DEF IInv, RequestOfHandler, QuestionOfForm
  <1>10. EditsSettled' /\ ShownIsLocked'
    BY <1>1, <1>5 DEF IInv, EditsSettled, Edited, ShownIsLocked
  <1>11. WritesItsOwn' /\ RelockerLocked' /\ BaseIsRead'
    BY <1>1 DEF IInv, WritesItsOwn, RelockerLocked, BaseIsRead, Current
  <1>12. AnswerHolds' /\ NoneGivenUp' /\ WrittenOf'
    BY <1>1, <1>3, <1>4, <1>6
    DEF IInv, AnswerHolds, Current, NoneGivenUp, WrittenOf
  <1>13. LeasesKnown'
    BY <1>1, <1>3, <1>5
    DEF IInv, LeasesKnown, NothingLost, OfForm, OfGrant, OfCookie
  <1> QED
    BY <1>7, <1>8, <1>9, <1>10, <1>11, <1>12, <1>13 DEF IInv

\* The record is written, and the form does not know it yet.
LEMMA WarnedKeeps ==
  ASSUME IInv, handler.at = "reply", Warned(request),
         UNCHANGED <<relock, faults, page, serverVars>>, OrphanKept,
         past' \in [settled : BOOLEAN, strayed : BOOLEAN, gaveUp : BOOLEAN],
         past'.settled, past'.strayed = past.strayed,
         past'.gaveUp = past.gaveUp
  PROVE  IInv' /\ Decided
  <1>1. /\ lease' = lease /\ disk' = disk /\ page' = page /\ faults' = faults
        /\ lastSession' = lastSession /\ lastVersion' = lastVersion
        /\ relock' = relock
        /\ request.status = "served" /\ request.result = "ok"
        /\ request.type \in {"WRITE", "WRITEU"}
    BY DEF serverVars, Warned
  <1>2. handler.mode # "LOAD" /\ ~Discarding /\ request.type \in Writes
    BY <1>1 DEF IInv, RequestOfHandler, Waiting, Discarding, Writes
  <1>3. /\ form.locked /\ form.key \in Key /\ request.key = form.key
        /\ request.session = form.session /\ form.session > 0
        /\ ~form.relocker /\ page.open
        /\ form \in Form /\ handler \in Handler /\ request \in Request
        /\ NothingLost =>
              \A k \in Key : lease[k].session > 0 => OfForm(k, form)
    BY <1>2, WaitingForForm
  <1>4. /\ form' \in Form /\ form'.locked /\ ~form'.relocker
        /\ form'.key = form.key /\ form'.session = form.session
        /\ form'.base = request.version /\ form'.shown = form.shown
        /\ form'.dirty = form.dirty /\ form'.typing = form.typing
    BY <1>3 DEF Warned, Form, Request
  <1>5. /\ handler' \in Handler /\ handler'.at = "written"
        /\ handler'.mode = handler.mode /\ handler'.next = handler.next
    BY <1>3 DEF Warned, Ask, Handler, YieldPoint, Question
  <1>6. request' = NoRequest
    BY <1>1 DEF Warned, Ask, RequestRead
  <1>7. /\ request'.type = "none" /\ request'.status = "served"
        /\ request'.result = "failed"
    BY <1>6 DEF NoRequest
  <1>8. ~Waiting' /\ ~Discarding'
    BY <1>5 DEF Waiting, Discarding
  <1>9. TypeOK'
    <2>1. orphan' \in BOOLEAN
      BY DEF OrphanKept, IInv, TypeOK, ClientTypeOK
    <2>2. ClientTypeOK'
      BY <1>1, <1>5, <1>6, <2>1, DoneTyped DEF IInv, TypeOK, ClientTypeOK
    <2> QED
      BY <1>1, <1>4, <2>2 DEF IInv, TypeOK
  <1>10. KeysGiven' /\ RequestOfHandler' /\ WriteOfForm' /\ QuestionOfForm'
    BY <1>1, <1>2, <1>3, <1>4, <1>5, <1>7, <1>8
    DEF IInv, KeysGiven, RequestOfHandler, WriteOfForm, QuestionOfForm, Writes
  <1>11. WrittenOf'
    <2> SUFFICES ASSUME Unlocks(handler.mode)
                 PROVE  lease[form.key].session # form.session
      BY <1>1, <1>4, <1>5, <1>7 DEF WrittenOf
    <2>1. request.type # "WRITE"
      BY <1>2 DEF IInv, RequestOfHandler, Waiting
    <2> QED
      BY <1>1, <1>2, <1>3, <2>1 DEF IInv, AnswerHolds
  <1>12. /\ EditsSettled' /\ ShownIsLocked' /\ WritesItsOwn'
         /\ RelockerLocked'
    BY <1>2, <1>3, <1>4, <1>7
    DEF IInv, EditsSettled, ShownIsLocked, WritesItsOwn, RelockerLocked
  <1>13. BaseIsRead'
    BY <1>1, <1>2, <1>3, <1>4 DEF IInv, BaseIsRead, AnswerHolds, Current
  <1>14. AnswerHolds' /\ NoneGivenUp'
    BY <1>1, <1>7 DEF AnswerHolds, IInv, NoneGivenUp, OrphanKept, Writes
  <1>15. LeasesKnown'
    BY <1>1, <1>3, <1>4 DEF LeasesKnown, NothingLost, OfForm
  <1>16. Decided
    BY <1>4 DEF Decided
  <1> QED
    BY <1>9, <1>10, <1>11, <1>12, <1>13, <1>14, <1>15, <1>16 DEF IInv

LEMMA ReplyKeeps ==
  ASSUME IInv, Reply
  PROVE  IInv' /\ Decided
  <1>1. /\ ReplyIn /\ OrphanKept /\ relock' = relock /\ faults' = faults
        /\ page' = page /\ UNCHANGED serverVars
    BY DEF Reply
  <1>2. CASE request.result = "login"
    <2>1. AskLogin /\ form' = form /\ past' = past
      BY <1>2 DEF Reply
    <2> QED
      BY <1>1, <1>2, <2>1, AskLoginKeeps DEF Decided
  <1>3. CASE request.result # "login"
    <2>1. /\ Got(request, form, handler)
          /\ past' = [past EXCEPT
               !.settled = @ \/ Acknowledged(request),
               !.gaveUp = @ \/ <<handler.mode, request.result>>
                                 = <<"LOAD", "failed">>]
      BY <1>3 DEF Reply
    <2>2. handler.at = "reply" /\ request.status = "served"
      BY <1>1 DEF ReplyIn
    <2>3. AnswerTo(request)
      BY <1>3, <2>2 DEF AnswerTo, IInv, TypeOK, ClientTypeOK
    <2>4. past \in [settled : BOOLEAN, strayed : BOOLEAN, gaveUp : BOOLEAN]
      BY DEF IInv, TypeOK
    <2>5. /\ past' \in [settled : BOOLEAN, strayed : BOOLEAN, gaveUp : BOOLEAN]
          /\ past'.settled <=> past.settled \/ Acknowledged(request)
          /\ past'.strayed = past.strayed
          /\ past'.gaveUp <=>
               \/ past.gaveUp
               \/ handler.mode = "LOAD" /\ request.result = "failed"
      BY <2>1, <2>4 DEF Acknowledged
    <2>6. ASSUME Warned(request) PROVE IInv' /\ Decided
      <3>1. past'.settled /\ past'.gaveUp = past.gaveUp
        BY <2>5, <2>6, <2>4 DEF Warned, Acknowledged
      <3> QED
        BY <1>1, <2>2, <2>5, <2>6, <3>1, WarnedKeeps
    <2>7. ASSUME NEW f \in Form, Outcome(f), Suits(f),
                 Decides(request, f), StillKnown(request, f)
          PROVE  IInv' /\ Decided
      <3>1. Edited' /\ (Discarding' \/ ~f.locked) =>
              past'.settled \/ past'.strayed
        BY <2>5, <2>7 DEF Decides
      <3>2. Decided
        BY <2>5, <2>7 DEF Decides, Decided
      <3>3. NothingLost' => \A k \in Key : lease[k].session > 0 => OfForm(k, f)
        <4> SUFFICES ASSUME NothingLost'
                     PROVE  NothingLost /\ (handler.mode = "LOAD" =>
                                              request.result = "ok")
          BY <2>2, <2>7 DEF StillKnown
        <4>1. NothingLost
          BY <1>1, <2>5 DEF NothingLost
        <4>2. handler.mode = "LOAD" =>
                request.type = "UNLOCK" /\ request.result # "failed"
          BY <2>2, <2>5 DEF NothingLost, IInv, RequestOfHandler, Waiting
        <4>3. handler.mode = "LOAD" => request.result = "ok"
          BY <1>3, <2>2, <4>2
          DEF IInv, AnswerHolds, TypeOK, ClientTypeOK, Request
        <4> QED
          BY <4>1, <4>3
      <3>4. /\ orphan' \in BOOLEAN /\ relock' \in Relock
            /\ faults' \in 0..MaxFaults
            /\ faults' = 0 => ~orphan' /\ request.status # "sent"
        BY <1>1, <2>2
        DEF OrphanKept, IInv, TypeOK, ClientTypeOK, NoneGivenUp
      <3>5. page.open
        BY <2>2 DEF IInv, KeysGiven
      <3>6. Continues(f)
        BY <1>1, <2>5, <3>1, <3>3, <3>4, <3>5 DEF Continues
      <3> QED
        BY <2>7, <3>2, <3>6, GoesOn
    <2> QED
      BY <2>1, <2>2, <2>3, <2>6, <2>7, GotGoesOn
  <1> QED
    BY <1>2, <1>3

\* A reply that is lost, or is taken for lost.
LEMMA RetryOrGiveUpKeeps ==
  ASSUME IInv, handler.at = "reply", NEW strayed \in BOOLEAN,
         RetryOrGiveUp(strayed), Fault, relock' \in Relock,
         orphan' \in BOOLEAN, page' = page, UNCHANGED serverVars
  PROVE  IInv' /\ Decided
  <1>1. /\ faults' # 0 /\ faults' \in 0..MaxFaults /\ ~NothingLost'
        /\ past \in [settled : BOOLEAN, strayed : BOOLEAN, gaveUp : BOOLEAN]
        /\ request \in Request
    BY ClientAssumption DEF Fault, IInv, TypeOK, ClientTypeOK, NothingLost
  <1>2. CASE /\ SendAgain
             /\ past' = [past EXCEPT !.strayed = @ \/ strayed]
             /\ UNCHANGED form
    <2>1. /\ past' \in [settled : BOOLEAN, strayed : BOOLEAN, gaveUp : BOOLEAN]
          /\ past'.settled = past.settled /\ (past.strayed => past'.strayed)
      BY <1>1, <1>2
    <2> QED
      BY <1>1, <1>2, <2>1, SendAgainKeeps DEF Waiting, Decided
  <1>3. CASE
      /\ Got([request EXCEPT !.result = "failed", !.grant = 0, !.version = 0],
             form, handler)
      /\ past' = [past EXCEPT !.gaveUp = TRUE, !.strayed = @ \/ strayed]
    <2> DEFINE r == [request EXCEPT !.result = "failed", !.grant = 0,
                                    !.version = 0]
    <2>1. r \in Request /\ r.type = request.type /\ r.result = "failed"
      BY <1>1 DEF Request
    <2>2. Got(r, form, handler)
      BY <1>3
    <2> HIDE DEF r
    <2>3. AnswerTo(r) /\ ~Acknowledged(r)
      BY <2>1 DEF AnswerTo, Acknowledged
    <2>4. PICK f \in Form : Outcome(f) /\ Suits(f) /\ Decides(r, f)
      BY <2>1, <2>2, <2>3, GotGoesOn DEF Warned
    <2>5. /\ past' \in [settled : BOOLEAN, strayed : BOOLEAN, gaveUp : BOOLEAN]
          /\ past'.settled = past.settled /\ (past.strayed => past'.strayed)
      BY <1>1, <1>3
    <2>6. Edited' /\ (Discarding' \/ ~f.locked) =>
            past'.settled \/ past'.strayed
      BY <2>3, <2>4, <2>5 DEF Decides
    <2>7. Decided
      BY <2>3, <2>4, <2>5 DEF Decides, Decided
    <2>8. page.open
      BY DEF IInv, KeysGiven
    <2>9. Continues(f)
      BY <1>1, <2>5, <2>6, <2>8 DEF Continues
    <2> QED
      BY <2>4, <2>7, <2>9, GoesOn
  <1> QED
    BY <1>2, <1>3 DEF RetryOrGiveUp

LEMMA ReplyFailsKeeps ==
  ASSUME IInv, ReplyFails
  PROVE  IInv' /\ Decided
  BY RetryOrGiveUpKeeps DEF ReplyFails, ReplyLost, IInv, TypeOK, ClientTypeOK

LEMMA StrayToRequestKeeps ==
  ASSUME IInv, StrayToRequest
  PROVE  IInv' /\ Decided
  <1>1. relock' \in Relock
    BY DEF StrayToRequest, NoRelock, Relock
  <1> QED
    BY <1>1, RetryOrGiveUpKeeps DEF StrayToRequest

-----------------------------------------------------------------------------
(* A handler goes on with an answer, of the user or of nobody.             *)

\* What an answer to a question leaves, from a form f.
AnswerDecides(v, f) ==
  LET decided == \/ past.settled \/ past.strayed \/ v = Ok
                 \/ handler.at = "save_or_discard" /\ v = No
  IN /\ Edited' /\ (Discarding' \/ ~f.locked) => decided
     /\ form.dirty /\ ~form'.dirty => decided

AnswerKnown(v, f) ==
  NothingLost /\ (handler.at = "retry_unlock" => v = Yes) =>
    \A k \in Key : lease[k].session > 0 => OfForm(k, f)

LEMMA AnswerSaveGoesOn ==
  ASSUME IInv, handler.at = "save_or_discard", NEW v \in {Cancel, Yes, No, Ok},
         AnswerSave(v, form, handler)
  PROVE  \E f \in Form : /\ Outcome(f) /\ AnswerDecides(v, f)
                         /\ f.locked = form.locked /\ f.key = form.key
                         /\ f.session = form.session /\ f.base = form.base
                         /\ f.shown = form.shown
  <1> DEFINE i == [handler EXCEPT !.clear = TRUE]
             g == Validated(form)
  <1>1. /\ form \in Form /\ handler \in Handler /\ request \in Request
        /\ form.locked /\ handler.mode # "LOAD" /\ form.key \in Key
    BY DEF IInv, TypeOK, ClientTypeOK, QuestionOfForm, RequestOfHandler,
           Waiting, KeysGiven
  <1>2. Called(form, handler)
    BY <1>1 DEF Called, IInv, KeysGiven
  <1>3. i \in Handler /\ i.mode = handler.mode /\ i.next = handler.next
    BY <1>1 DEF Handler
  <1>4. /\ g \in Form /\ g.locked = form.locked /\ g.relocker = form.relocker
        /\ form.dirty => g.dirty
        /\ g.key = form.key /\ g.session = form.session
        /\ g.base = form.base /\ g.shown = form.shown
    BY <1>1, ValidatedForm
  <1>5. \/ v # Ok /\ v # No /\ form' = form /\ Finish
        \/ WriteDoc(g, handler)
        \/ v = No /\ ClearOrUnlock(form, i)
        \/ v = Ok /\ ClearOrUnlock(form, handler)
    BY DEF AnswerSave, Cancel, Yes, No, Ok
  <1> HIDE DEF g, i
  <1>6. Called(form, i) /\ Called(g, handler)
    BY <1>1, <1>2, <1>3, <1>4 DEF Called
  <1>7. CASE v # Ok /\ v # No /\ form' = form /\ Finish
    <2>1. Outcome(form)
      BY <1>1, <1>7, FinishOutcome DEF IInv, RelockerLocked
    <2>2. ~Discarding'
      BY <1>7, DoneTyped DEF Finish, Discarding, Waiting
    <2>3. AnswerDecides(v, form)
      BY <1>1, <1>7, <2>2 DEF AnswerDecides
    <2> QED
      BY <1>1, <2>1, <2>3
  <1>8. CASE WriteDoc(g, handler)
    <2>1. Outcome(g) /\ form'.dirty = g.dirty /\ ~Discarding'
      BY <1>1, <1>4, <1>6, <1>8, WriteDocOutcome
    <2>2. AnswerDecides(v, g)
      BY <1>1, <1>4, <2>1 DEF AnswerDecides
    <2> QED
      BY <1>4, <2>1, <2>2
  <1>9. CASE v = No /\ ClearOrUnlock(form, i)
    <2>1. Outcome(form) /\ AnswerDecides(v, form)
      BY <1>6, <1>9, ClearOrUnlockOutcome DEF AnswerDecides
    <2> QED
      BY <1>1, <2>1
  <1>10. CASE v = Ok /\ ClearOrUnlock(form, handler)
    <2>1. Outcome(form) /\ AnswerDecides(v, form)
      BY <1>2, <1>10, ClearOrUnlockOutcome DEF AnswerDecides
    <2> QED
      BY <1>1, <2>1
  <1> QED
    BY <1>5, <1>7, <1>8, <1>9, <1>10

LEMMA AnswerGoesOn ==
  ASSUME IInv, handler.at \in Question \ {"resume_login"},
         NEW v \in {Cancel, Yes, No, Ok}, Answer(v)
  PROVE  \E f \in Form : /\ Outcome(f) /\ Suits(f)
                         /\ AnswerDecides(v, f) /\ AnswerKnown(v, f)
  <1>1. /\ form \in Form /\ handler \in Handler /\ request \in Request
        /\ page.open /\ ~Waiting /\ handler.mode # "LOAD"
        /\ form.relocker => form.locked
        /\ form.locked => form.key \in Key
    BY DEF IInv, TypeOK, ClientTypeOK, RequestOfHandler, Waiting, Question,
           KeysGiven, RelockerLocked
  <1>2. Called(form, handler)
    BY <1>1 DEF Called, IInv, KeysGiven
  <1>3. NothingLost =>
          \A k \in Key : lease[k].session > 0 => OfForm(k, form)
    BY <1>1, AtRest DEF Waiting
  <1>4. Edited /\ ~form.locked => past.settled \/ past.strayed
    BY DEF IInv, EditsSettled
  <1>5. ASSUME handler.at # "retry_unlock",
               NEW f \in Form, Outcome(f), AnswerDecides(v, f),
               f.locked = form.locked, f.key = form.key,
               f.session = form.session, f.base = form.base,
               f.shown = form.shown
        PROVE  \E g \in Form : /\ Outcome(g) /\ Suits(g)
                               /\ AnswerDecides(v, g) /\ AnswerKnown(v, g)
    <2>1. Suits(f)
      BY <1>1, <1>5, SuitsForm DEF Discarding
    <2>2. AnswerKnown(v, f)
      BY <1>3, <1>5 DEF AnswerKnown, OfForm
    <2> QED
      BY <1>5, <2>1, <2>2
  <1>6. ASSUME form' = form, Finish \/ Note
        PROVE  /\ Outcome(form) /\ AnswerDecides(v, form)
    <2>1. Outcome(form)
      BY <1>1, <1>6, FinishOutcome
    <2>2. ~Discarding'
      BY <1>6, DoneTyped DEF Finish, Note, Discarding, Waiting
    <2> QED
      BY <1>4, <1>6, <2>1, <2>2 DEF AnswerDecides, Edited
  <1>7. CASE handler.at = "note"
    <2>1. form' = form /\ Finish
      BY <1>7 DEF Answer
    <2> QED
      BY <1>1, <1>5, <1>6, <1>7, <2>1
  <1>8. CASE handler.at = "deleted"
    <2> DEFINE i == [handler EXCEPT !.clear = TRUE]
    <2>1. i \in Handler /\ i.mode = handler.mode /\ i.next = handler.next
      BY <1>1 DEF Handler
    <2>2. UnlockDoc(form, i)
      BY <1>8 DEF Answer
    <2> HIDE DEF i
    <2>3. Called(form, i)
      BY <1>2, <2>1 DEF Called
    <2>4. Outcome(form)
      BY <2>2, <2>3, UnlockDocOutcome
    <2>5. ~form.locked
      BY <1>8 DEF IInv, QuestionOfForm
    <2>6. AnswerDecides(v, form)
      BY <1>4, <2>4, <2>5 DEF AnswerDecides, Outcome, Edited
    <2> QED
      BY <1>1, <1>5, <1>8, <2>4, <2>6
  <1>9. CASE handler.at = "save_or_discard"
    <2>1. AnswerSave(v, form, handler)
      BY <1>9 DEF Answer
    <2>2. PICK f \in Form : /\ Outcome(f) /\ AnswerDecides(v, f)
                            /\ f.locked = form.locked /\ f.key = form.key
                            /\ f.session = form.session /\ f.base = form.base
                            /\ f.shown = form.shown
      BY <1>9, <2>1, AnswerSaveGoesOn
    <2> QED
      BY <1>5, <1>9, <2>2
  <1>10. CASE handler.at = "view_only"
    <2> DEFINE g == [form EXCEPT !.isnew = FALSE]
    <2>1. \/ form' = form /\ Finish
          \/ ShowDoc(g, handler)
      BY <1>10 DEF Answer
    <2>2. /\ g \in Form /\ g.locked = form.locked /\ g.key = form.key
          /\ g.session = form.session /\ g.base = form.base
          /\ g.shown = form.shown /\ g.relocker = form.relocker
          /\ g.dirty = form.dirty /\ g.typing = form.typing
      BY <1>1 DEF Form
    <2> HIDE DEF g
    <2>3. CASE form' = form /\ Finish
      BY <1>1, <1>5, <1>6, <1>10, <2>3
    <2>4. CASE ShowDoc(g, handler)
      <3>1. Called(g, handler)
        BY <1>2, <2>2 DEF Called
      <3>2. Outcome(g)
        BY <2>4, <3>1, ShowDocOutcome
      <3>3. ~form.locked
        BY <1>10 DEF IInv, QuestionOfForm
      <3>4. AnswerDecides(v, g)
        BY <1>4, <2>2, <3>2, <3>3 DEF AnswerDecides, Outcome, Edited
      <3> QED
        BY <1>5, <1>10, <2>2, <3>2, <3>4
    <2> QED
      BY <2>1, <2>3, <2>4
  <1>11. CASE handler.at = "sure_to_delete"
    <2> DEFINE g == [form EXCEPT !.relocker = FALSE]
    <2>1. \/ form' = form /\ Note
          \/ form' = g /\ Send("DELETE", form.key, form.session, NoKey, handler)
      BY <1>11 DEF Answer, AnswerDelete
    <2>2. /\ g \in Form /\ g.locked = form.locked /\ g.key = form.key
          /\ g.session = form.session /\ g.base = form.base
          /\ g.shown = form.shown /\ ~g.relocker
          /\ g.dirty = form.dirty /\ g.typing = form.typing
      BY <1>1 DEF Form
    <2>3. form.locked
      BY <1>11 DEF IInv, QuestionOfForm
    <2> HIDE DEF g
    <2>4. CASE form' = form /\ Note
      BY <1>1, <1>5, <1>6, <1>11, <2>4
    <2>5. CASE /\ form' = g
               /\ Send("DELETE", form.key, form.session, NoKey, handler)
      <3>1. Called(g, handler)
        BY <1>2, <2>2 DEF Called
      <3>2. /\ Outcome(g)
            /\ handler'.at = "reply" /\ request'.type = "DELETE"
        BY <2>2, <2>3, <2>5, <3>1, SendOutcome
      <3>3. AnswerDecides(v, g)
        BY <2>2, <2>3, <2>5, <3>2 DEF AnswerDecides, Discarding
      <3> QED
        BY <1>5, <1>11, <2>2, <3>2, <3>3
    <2> QED
      BY <2>1, <2>4, <2>5
  <1>12. CASE handler.at = "retry_unlock"
    <2>1. /\ form.locked /\ ~form.relocker /\ Discarding
          /\ request.type \notin Writes
      BY <1>12 DEF IInv, QuestionOfForm, Discarding, Writes
    <2>2. Edited => past.settled \/ past.strayed
      BY <2>1 DEF IInv, EditsSettled
    <2>3. CASE v = Yes
      <3>1. /\ form' = form
            /\ Send("UNLOCK", form.key, form.session, NoKey, handler)
        BY <1>12, <2>3 DEF Answer, AnswerRetryUnlock
      <3>2. /\ Outcome(form)
            /\ handler'.at = "reply" /\ request'.type = "UNLOCK"
        BY <1>2, <2>1, <3>1, SendOutcome
      <3>3. Suits(form)
        BY <2>1, <3>2
        DEF Suits, IInv, KeysGiven, BaseIsRead, Discarding, Waiting
      <3>4. AnswerDecides(v, form) /\ AnswerKnown(v, form)
        BY <1>3, <2>2, <3>1 DEF AnswerDecides, AnswerKnown, Edited
      <3> QED
        BY <1>1, <3>2, <3>3, <3>4
    <2>4. CASE v # Yes
      <3> DEFINE g == [form EXCEPT !.locked = FALSE]
      <3>1. Unlocked(form, handler)
        BY <1>12, <2>4 DEF Answer, AnswerRetryUnlock
      <3>2. /\ g \in Form /\ ~g.locked
            /\ g.dirty = form.dirty /\ g.typing = form.typing
        BY <1>1 DEF Form
      <3>3. Outcome(g)
        BY <1>2, <2>1, <3>1, UnlockedOutcome
      <3> HIDE DEF g
      <3>4. Suits(g)
        BY <2>1, <3>2 DEF Suits
      <3>5. AnswerDecides(v, g) /\ AnswerKnown(v, g)
        BY <1>12, <2>2, <2>4, <3>2, <3>3
        DEF AnswerDecides, AnswerKnown, Outcome, Edited
      <3> QED
        BY <3>2, <3>3, <3>4, <3>5
    <2> QED
      BY <2>3, <2>4
  <1>13. CASE handler.at = "written"
    <2> DEFINE w == ~Unlocks(handler.mode)
               g == [form EXCEPT !.locked = w, !.relocker = w,
                       !.isnew = FALSE, !.typing = FALSE, !.first = FALSE]
    <2>1. /\ form.locked /\ request.type = "none"
          /\ past.settled \/ past.strayed
          /\ ~w => lease[form.key].session # form.session
      BY <1>13 DEF IInv, WrittenOf
    <2>2. ClearOrUnlock(g, handler)
      BY <1>13 DEF Answer, Written
    <2>3. /\ g \in Form /\ g.locked = w /\ g.relocker = w
          /\ g.key = form.key /\ g.session = form.session
          /\ g.base = form.base /\ g.shown = form.shown
      <3>1. w \in BOOLEAN
        OBVIOUS
      <3> HIDE DEF w
      <3> QED
        BY <1>1, <3>1 DEF Form
    <2> HIDE DEF g, w
    <2>4. Called(g, handler)
      BY <1>1, <1>2, <2>1, <2>3 DEF Called
    <2>5. Outcome(g)
      BY <2>2, <2>4, ClearOrUnlockOutcome
    <2>6. Suits(g)
      BY <1>1, <1>13, <2>1, <2>3
      DEF Suits, IInv, KeysGiven, BaseIsRead, ShownIsLocked, Discarding, Writes
    <2>7. AnswerDecides(v, g)
      BY <2>1 DEF AnswerDecides
    <2>8. AnswerKnown(v, g)
      BY <1>3, <2>1, <2>3 DEF AnswerKnown, OfForm
    <2> QED
      BY <2>3, <2>5, <2>6, <2>7, <2>8
  <1> QED
    BY <1>7, <1>8, <1>9, <1>10, <1>11, <1>12, <1>13 DEF Question

\* The login page instead of the document: its lock is left to expire.
LEMMA LeftForLogin ==
  ASSUME IInv, handler.at = "resume_login",
         NEW v \in {No, Ok}, AnswerLogin(v, form, handler),
         page' = [page EXCEPT !.open = FALSE], UNCHANGED serverVars,
         orphan' \in BOOLEAN, relock' \in Relock, faults' \in 0..MaxFaults,
         past' \in [settled : BOOLEAN, strayed : BOOLEAN, gaveUp : BOOLEAN],
         past'.settled \/ past'.strayed, ~NothingLost',
         faults' = 0 => ~orphan'
  PROVE  IInv' /\ Decided
  <1>1. /\ form' = [Clean(form) EXCEPT !.locked = FALSE, !.key = NoKey]
        /\ Finish
    BY DEF AnswerLogin, Yes, No, Ok
  <1>2. /\ lease' = lease /\ disk' = disk
        /\ lastSession' = lastSession /\ lastVersion' = lastVersion
        /\ form \in Form /\ handler \in Handler /\ request \in Request
        /\ page \in [open : BOOLEAN, key : Key \cup {NoKey}, session : Nat]
    BY DEF serverVars, IInv, TypeOK, ClientTypeOK
  <1>3. page.open /\ request.status = "served" /\ ~form.relocker
    BY DEF IInv, KeysGiven, RequestOfHandler, Waiting
  <1>4. handler' = Done /\ request' = NoRequest
    BY <1>1, <1>3 DEF Finish, RequestRead
  <1>5. /\ form' \in Form /\ ~form'.locked /\ ~form'.relocker
    BY <1>1, <1>2, <1>3 DEF Clean, Form
  <1>6. TypeOK'
    BY <1>2, <1>4, <1>5, DoneTyped DEF IInv, TypeOK, ClientTypeOK
  <1>7. ~Waiting' /\ handler'.at = "done" /\ handler'.mode = "CLOSE"
    BY <1>4, DoneTyped DEF Waiting
  <1>8. /\ KeysGiven' /\ RequestOfHandler' /\ WriteOfForm' /\ QuestionOfForm'
        /\ WrittenOf'
    BY <1>2, <1>4, <1>5, <1>7
    DEF KeysGiven, RequestOfHandler, WriteOfForm, QuestionOfForm, WrittenOf,
        NoRequest, Writes
  <1>9. EditsSettled' /\ ShownIsLocked' /\ WritesItsOwn' /\ RelockerLocked'
    BY <1>4, <1>5
    DEF EditsSettled, ShownIsLocked, WritesItsOwn, RelockerLocked, NoRequest
  <1>10. BaseIsRead' /\ AnswerHolds' /\ NoneGivenUp' /\ LeasesKnown'
    BY <1>4, <1>5
    DEF BaseIsRead, AnswerHolds, NoneGivenUp, LeasesKnown, NoRequest, Writes
  <1> QED
    BY <1>6, <1>8, <1>9, <1>10 DEF IInv, Decided

LEMMA StrayLeaves ==
  ASSUME IInv, StrayReply
  PROVE  /\ orphan' \in BOOLEAN /\ relock' \in Relock
         /\ ~Blocked => faults' = faults
         /\ Blocked => faults' \in 0..MaxFaults /\ faults' # 0
  <1>1. /\ orphan \in BOOLEAN /\ relock \in Relock
        /\ faults \in 0..MaxFaults /\ MaxFaults \in Nat
        /\ NoRelock \in Relock
    BY ClientAssumption DEF IInv, TypeOK, ClientTypeOK, NoRelock, Relock
  <1>2. Blocked => faults' \in 0..MaxFaults /\ faults' # 0
    BY <1>1 DEF StrayReply, Fault
  <1>3. orphan' \in BOOLEAN /\ relock' \in Relock
    BY <1>1 DEF StrayReply, OrphanKept
  <1>4. ~Blocked => faults' = faults
    BY DEF StrayReply
  <1> QED
    BY <1>2, <1>3, <1>4

LEMMA UserAnswersKeeps ==
  ASSUME IInv, UserAnswers
  PROVE  IInv' /\ Decided
  <1>1. PICK v \in Buttons(handler.at) :
       /\ Answer(v)
       /\ past' = [past EXCEPT
            !.settled = @ \/ <<handler.at, v>> = <<"save_or_discard", No>>
                          \/ <<handler.at, v>> = <<"resume_login", No>>,
            !.gaveUp = @ \/ <<handler.at, v>> = <<"retry_unlock", No>>
                         \/ <<handler.at, v>> = <<"resume_login", No>>]
       /\ page' = [page EXCEPT
            !.open = @ /\ <<handler.at, v>> # <<"resume_login", No>>]
    BY DEF UserAnswers
  <1>2. /\ handler.at \in Question /\ OrphanKept
        /\ relock' = relock /\ faults' = faults /\ UNCHANGED serverVars
    BY DEF UserAnswers
  <1>3. /\ v \in {Cancel, Yes, No, Ok} /\ v # Ok
        /\ handler.at \in {"retry_unlock", "resume_login"} => v \in {Yes, No}
    BY <1>1, <1>2 DEF Buttons, Cancel, Yes, No, Ok
  <1>4. /\ past \in [settled : BOOLEAN, strayed : BOOLEAN, gaveUp : BOOLEAN]
        /\ page \in [open : BOOLEAN, key : Key \cup {NoKey}, session : Nat]
        /\ relock \in Relock /\ orphan \in BOOLEAN /\ faults \in 0..MaxFaults
        /\ handler \in Handler
        /\ page.open
    BY <1>2 DEF IInv, TypeOK, ClientTypeOK, KeysGiven, Question
  <1>5. /\ past' \in [settled : BOOLEAN, strayed : BOOLEAN, gaveUp : BOOLEAN]
        /\ past'.settled <=> \/ past.settled
                             \/ handler.at = "save_or_discard" /\ v = No
                             \/ handler.at = "resume_login" /\ v = No
        /\ past'.strayed = past.strayed
        /\ past'.gaveUp <=> \/ past.gaveUp
                            \/ handler.at = "retry_unlock" /\ v = No
                            \/ handler.at = "resume_login" /\ v = No
    BY <1>1, <1>4
  <1>6. orphan' \in BOOLEAN /\ (orphan' => orphan)
    BY <1>2, <1>4 DEF OrphanKept
  <1>7. CASE handler.at # "resume_login"
    <2>1. page' = page
      BY <1>1, <1>4, <1>7
    <2>2. PICK f \in Form : /\ Outcome(f) /\ Suits(f)
                            /\ AnswerDecides(v, f) /\ AnswerKnown(v, f)
      BY <1>1, <1>2, <1>3, <1>7, AnswerGoesOn
    <2>3. /\ Edited' /\ (Discarding' \/ ~f.locked) =>
               past'.settled \/ past'.strayed
          /\ Decided
      BY <1>3, <1>5, <2>2 DEF AnswerDecides, Decided
    <2>4. NothingLost' => \A k \in Key : lease[k].session > 0 => OfForm(k, f)
      BY <1>2, <1>3, <1>5, <2>2 DEF NothingLost, AnswerKnown
    <2>5. faults' = 0 => ~orphan' /\ request.status # "sent"
      BY <1>2, <1>4, <1>6, <1>7, AtRest DEF Question
    <2>6. Continues(f)
      BY <1>2, <1>4, <1>5, <1>6, <2>1, <2>3, <2>4, <2>5 DEF Continues
    <2> QED
      BY <2>2, <2>3, <2>6, GoesOn
  <1>8. CASE handler.at = "resume_login" /\ v = Yes
    <2>1. SendAgain /\ form' = form
      BY <1>1, <1>8 DEF Answer, AnswerLogin
    <2>2. page' = page /\ past'.settled = past.settled
          /\ past'.gaveUp = past.gaveUp
      BY <1>1, <1>4, <1>5, <1>8 DEF Yes, No
    <2>3. NothingLost' => NothingLost /\ request.result # "ok"
      BY <1>2, <1>5, <1>8, <2>2 DEF NothingLost, IInv, RequestOfHandler
    <2>4. faults' = 0 => ~orphan'
      BY <1>2, <1>6 DEF IInv, NoneGivenUp
    <2> QED
      BY <1>2, <1>4, <1>5, <1>6, <1>8, <2>1, <2>2, <2>3, <2>4,
         SendAgainKeeps DEF Waiting, Decided
  <1>9. CASE handler.at = "resume_login" /\ v = No
    <2>1. AnswerLogin(v, form, handler)
      BY <1>1, <1>9 DEF Answer
    <2>2. page' = [page EXCEPT !.open = FALSE]
      BY <1>1, <1>4, <1>9
    <2>3. past'.settled /\ ~NothingLost'
      BY <1>5, <1>9 DEF NothingLost
    <2>4. faults' = 0 => ~orphan'
      BY <1>2, <1>6 DEF IInv, NoneGivenUp
    <2> QED
      BY <1>2, <1>4, <1>5, <1>6, <1>9, <2>1, <2>2, <2>3, <2>4, LeftForLogin
  <1> QED
    BY <1>3, <1>7, <1>8, <1>9

LEMMA StrayToQuestionKeeps ==
  ASSUME IInv, StrayToQuestion
  PROVE  IInv' /\ Decided
  <1>1. /\ handler.at \in Question /\ Answer(Ok) /\ StrayReply
        /\ past' = [past EXCEPT !.strayed = TRUE]
        /\ page' = [page EXCEPT !.open = @ /\ handler.at # "resume_login"]
        /\ UNCHANGED serverVars
    BY DEF StrayToQuestion
  <1>2. /\ past \in [settled : BOOLEAN, strayed : BOOLEAN, gaveUp : BOOLEAN]
        /\ page \in [open : BOOLEAN, key : Key \cup {NoKey}, session : Nat]
        /\ relock \in Relock /\ orphan \in BOOLEAN /\ faults \in 0..MaxFaults
        /\ page.open
    BY <1>1 DEF IInv, TypeOK, ClientTypeOK, KeysGiven, Question
  <1>3. /\ orphan' \in BOOLEAN /\ relock' \in Relock
        /\ faults' \in 0..MaxFaults /\ faults' # 0
    BY <1>1, StrayLeaves DEF Blocked, Question
  <1>4. /\ past' \in [settled : BOOLEAN, strayed : BOOLEAN, gaveUp : BOOLEAN]
        /\ past'.strayed /\ ~NothingLost'
    BY <1>1, <1>2 DEF NothingLost
  <1>5. CASE handler.at # "resume_login"
    <2>1. page' = page
      BY <1>1, <1>2, <1>5
    <2>2. PICK f \in Form : Outcome(f) /\ Suits(f)
      BY <1>1, <1>5, AnswerGoesOn
    <2>3. Continues(f) /\ Decided
      BY <1>1, <1>2, <1>3, <1>4, <2>1 DEF Continues, Decided
    <2> QED
      BY <2>2, <2>3, GoesOn
  <1>6. CASE handler.at = "resume_login"
    <2>1. AnswerLogin(Ok, form, handler)
      BY <1>1, <1>6 DEF Answer
    <2>2. page' = [page EXCEPT !.open = FALSE]
      BY <1>1, <1>2, <1>6
    <2> QED
      BY <1>1, <1>3, <1>4, <1>6, <2>1, <2>2, LeftForLogin
  <1> QED
    BY <1>5, <1>6

-----------------------------------------------------------------------------
(* The relocker, and pages that close and load.                            *)

\* A step that leaves everything but the age of leases, the RELOCK on its way
\* and a reply that nobody waits for.
LEMMA OnlyAges ==
  ASSUME IInv, UNCHANGED <<handler, request, faults, form, past, page, disk,
                           lastSession, lastVersion>>,
         relock' \in Relock, orphan' \in BOOLEAN, orphan' => orphan,
         lease' \in [Key -> [session : Nat \cup {Other},
                             age : 0..LeaseTurns + 1]],
         \A k \in Key : lease'[k].session = lease[k].session
  PROVE  IInv' /\ Decided
  <1>1. /\ handler' = handler /\ request' = request /\ faults' = faults
        /\ form' = form /\ past' = past /\ page' = page /\ disk' = disk
        /\ lastSession' = lastSession /\ lastVersion' = lastVersion
    OBVIOUS
  <1>2. TypeOK'
    BY <1>1 DEF IInv, TypeOK, ClientTypeOK
  <1>3. KeysGiven' /\ RequestOfHandler' /\ WriteOfForm' /\ QuestionOfForm'
    BY <1>1 DEF IInv, KeysGiven, RequestOfHandler, WriteOfForm, QuestionOfForm,
                Waiting
  <1>4. /\ EditsSettled' /\ ShownIsLocked' /\ WritesItsOwn' /\ RelockerLocked'
        /\ NoneGivenUp'
    BY <1>1
    DEF IInv, EditsSettled, ShownIsLocked, WritesItsOwn, RelockerLocked, 
                NoneGivenUp, Edited, Discarding, Waiting
  <1>5. form.locked => form.key \in Key
    BY DEF IInv, KeysGiven
  <1>10. WrittenOf'
    BY <1>1, <1>5 DEF IInv, WrittenOf
  <1>6. request.type # "none" => request.key \in Key
    BY DEF IInv, KeysGiven
  <1>7. BaseIsRead'
    BY <1>1, <1>5 DEF IInv, BaseIsRead, Current
  <1>8. AnswerHolds'
    BY <1>1, <1>6 DEF IInv, AnswerHolds, Current, Writes
  <1>9. LeasesKnown'
    BY <1>1 DEF IInv, LeasesKnown, NothingLost, OfForm, OfGrant, OfCookie,
                Waiting
  <1> QED
    BY <1>1, <1>2, <1>3, <1>4, <1>7, <1>8, <1>9, <1>10 DEF IInv, Decided

LEMMA StrayToNobodyKeeps ==
  ASSUME IInv, StrayToNobody
  PROVE  IInv' /\ Decided
  <1>1. /\ UNCHANGED <<handler, request, form, past, page, lease, disk,
                       lastSession, lastVersion>>
        /\ ~Blocked /\ StrayReply /\ handler' = handler
    BY DEF StrayToNobody, serverVars
  <1>2. relock' \in Relock /\ orphan' \in BOOLEAN /\ faults' = faults
    BY <1>1, StrayLeaves
  <1>3. orphan' => orphan
    BY <1>1 DEF StrayReply, OrphanKept
  <1> QED
    BY <1>1, <1>2, <1>3, OnlyAges DEF IInv, TypeOK

LEMMA TurnKeeps ==
  ASSUME IInv, Turn
  PROVE  IInv' /\ Decided
  <1>1. /\ form \in Form /\ relock \in Relock /\ orphan \in BOOLEAN
        /\ lease \in [Key -> [session : Nat \cup {Other},
                              age : 0..LeaseTurns + 1]]
        /\ LeaseTurns \in Nat
    BY FormAssumption DEF IInv, TypeOK, ClientTypeOK
  <1>2. /\ UNCHANGED <<handler, request, orphan, faults>>
        /\ relock' \in Relock
    BY <1>1 DEF Turn, RelockDoc, SendRelock, Relock, Form, clientVars
  <1>3. \A k \in Key : /\ lease'[k] \in [session : Nat \cup {Other},
                                         age : 0..LeaseTurns + 1]
                       /\ lease'[k].session = lease[k].session
    BY <1>1 DEF Turn, Ages
  <1>4. lease' \in [Key -> [session : Nat \cup {Other},
                            age : 0..LeaseTurns + 1]]
    BY <1>1, <1>3 DEF Turn
  <1> QED
    BY <1>1, <1>2, <1>3, <1>4, OnlyAges DEF Turn

LEMMA ServeRelockKeeps ==
  ASSUME IInv, ServeRelock
  PROVE  IInv' /\ Decided
  <1>1. /\ relock \in Relock /\ orphan \in BOOLEAN
        /\ lease \in [Key -> [session : Nat \cup {Other},
                              age : 0..LeaseTurns + 1]]
        /\ LeaseTurns \in Nat
    BY FormAssumption DEF IInv, TypeOK, ClientTypeOK
  <1>2. relock' \in Relock
    BY <1>1 DEF ServeRelock, Relock, NoRelock
  <1>3. \A k \in Key : /\ lease'[k] \in [session : Nat \cup {Other},
                                         age : 0..LeaseTurns + 1]
                       /\ lease'[k].session = lease[k].session
    BY <1>1 DEF ServeRelock
  <1>4. lease' \in [Key -> [session : Nat \cup {Other},
                            age : 0..LeaseTurns + 1]]
    BY <1>1, <1>3 DEF ServeRelock
  <1> QED
    BY <1>1, <1>2, <1>3, <1>4, OnlyAges DEF ServeRelock


\* What a window that closes or loads leaves behind: nothing of the form.
LEMMA NoFormLeft ==
  ASSUME IInv, form' = Blank, disk' = disk, lastSession' = lastSession,
         lastVersion' = lastVersion, faults' = faults, relock' = NoRelock,
         orphan' = FALSE,
         past' \in [settled : BOOLEAN, strayed : BOOLEAN, gaveUp : BOOLEAN],
         page' \in [open : BOOLEAN, key : Key \cup {NoKey}, session : Nat],
         lease' \in [Key -> [session : Nat \cup {Other},
                             age : 0..LeaseTurns + 1]],
         handler' \in Handler, request' \in Request,
         handler'.mode # "OPEN",
         page'.open => page'.key = NoKey,
         \/ /\ handler' = Done
            /\ \/ request' = NoRequest
               \/ /\ request' = request /\ request.status = "sent"
                  /\ handler.at = "done" /\ ~form.locked
         \/ /\ page'.open /\ handler'.at = "reply" /\ handler'.mode = "LOAD"
            /\ request'.type = "UNLOCK" /\ request'.status = "sent"
            /\ request'.key \in Key,
         NothingLost' => \A k \in Key : lease'[k].session > 0 => OfCookie(k)'
  PROVE  IInv'
  <1>1. /\ form' \in Form /\ ~form'.locked /\ ~form'.dirty /\ ~form'.typing
        /\ ~form'.relocker
    BY DEF Blank, Form
  <1>2. NoRelock \in Relock
    BY DEF NoRelock, Relock
  <1>3. TypeOK'
    <2>1. ClientTypeOK'
      BY <1>2 DEF ClientTypeOK, IInv, TypeOK
    <2> QED
      BY <1>1, <2>1 DEF IInv, TypeOK
  <1>4. ASSUME handler' = Done, request' = NoRequest
        PROVE  /\ KeysGiven' /\ RequestOfHandler' /\ WriteOfForm'
               /\ QuestionOfForm' /\ AnswerHolds' /\ NoneGivenUp'
               /\ WritesItsOwn'
    <2>1. /\ handler'.at = "done" /\ handler'.mode = "CLOSE"
          /\ request'.type = "none" /\ request'.status = "served"
          /\ request'.result = "failed"
      BY <1>4 DEF Done, NoRequest
    <2>2. KeysGiven' /\ RequestOfHandler' /\ WriteOfForm' /\ QuestionOfForm'
      BY <1>1, <2>1
      DEF KeysGiven, RequestOfHandler, WriteOfForm, QuestionOfForm, Waiting,
          Writes
    <2>3. AnswerHolds' /\ NoneGivenUp' /\ WritesItsOwn'
      BY <2>1 DEF AnswerHolds, NoneGivenUp, WritesItsOwn, Writes
    <2> QED
      BY <2>2, <2>3
  <1>5. ASSUME page'.open, handler'.at = "reply", handler'.mode = "LOAD",
               request'.type = "UNLOCK", request'.status = "sent",
               request'.key \in Key
        PROVE  /\ KeysGiven' /\ RequestOfHandler' /\ WriteOfForm'
               /\ QuestionOfForm' /\ AnswerHolds' /\ NoneGivenUp'
               /\ WritesItsOwn'
    <2>1. KeysGiven' /\ RequestOfHandler' /\ WriteOfForm' /\ QuestionOfForm'
      BY <1>1, <1>5
      DEF KeysGiven, RequestOfHandler, WriteOfForm, QuestionOfForm, Waiting,
          Writes
    <2>2. AnswerHolds' /\ NoneGivenUp' /\ WritesItsOwn'
      BY <1>5 DEF AnswerHolds, NoneGivenUp, WritesItsOwn
    <2> QED
      BY <2>1, <2>2
  <1>6. ASSUME handler' = Done, request' = request, request.status = "sent",
               handler.at = "done", ~form.locked
        PROVE  /\ KeysGiven' /\ RequestOfHandler' /\ WriteOfForm'
               /\ QuestionOfForm' /\ AnswerHolds' /\ NoneGivenUp'
               /\ WritesItsOwn'
    <2>1. handler'.at = "done" /\ handler'.mode = "CLOSE"
      BY <1>6 DEF Done
    <2>2. request.type \notin Writes
      BY <1>6 DEF IInv, WriteOfForm
    <2>3. KeysGiven' /\ RequestOfHandler' /\ WriteOfForm' /\ QuestionOfForm'
      BY <1>1, <1>6, <2>1, <2>2
      DEF KeysGiven, RequestOfHandler, WriteOfForm, QuestionOfForm, Waiting,
          IInv
    <2>4. AnswerHolds' /\ NoneGivenUp' /\ WritesItsOwn'
      BY <1>6, <2>2
      DEF AnswerHolds, NoneGivenUp, WritesItsOwn, Writes, IInv
    <2> QED
      BY <2>3, <2>4
  <1>7. /\ KeysGiven' /\ RequestOfHandler' /\ WriteOfForm' /\ QuestionOfForm'
        /\ AnswerHolds' /\ NoneGivenUp' /\ WritesItsOwn'
    BY <1>4, <1>5, <1>6
  <1>8. EditsSettled' /\ ShownIsLocked' /\ RelockerLocked' /\ BaseIsRead'
    BY <1>1 DEF EditsSettled, Edited, ShownIsLocked, RelockerLocked, BaseIsRead
  <1>9. LeasesKnown' /\ WrittenOf'
    BY DoneTyped DEF LeasesKnown, WrittenOf
  <1> QED
    BY <1>3, <1>7, <1>8, <1>9 DEF IInv

LEMMA ClosePageKeeps ==
  ASSUME IInv, ClosePage
  PROVE  IInv' /\ Decided
  <1>1. /\ form \in Form /\ handler \in Handler /\ page.open
        /\ past \in [settled : BOOLEAN, strayed : BOOLEAN, gaveUp : BOOLEAN]
        /\ page \in [open : BOOLEAN, key : Key \cup {NoKey}, session : Nat]
        /\ lease \in [Key -> [session : Nat \cup {Other},
                              age : 0..LeaseTurns + 1]]
        /\ LeaseTurns \in Nat /\ orphan \in BOOLEAN
    BY FormAssumption DEF ClosePage, IInv, TypeOK, ClientTypeOK
  <1>2. /\ handler' = Done /\ request' = NoRequest /\ relock' = NoRelock
        /\ orphan' = FALSE /\ form' = Blank /\ faults' = faults
        /\ disk' = disk /\ lastSession' = lastSession
        /\ lastVersion' = lastVersion
    BY DEF ClosePage
  <1>3. /\ past' \in [settled : BOOLEAN, strayed : BOOLEAN, gaveUp : BOOLEAN]
        /\ past'.strayed = past.strayed
        /\ past'.gaveUp <=> past.gaveUp \/ handler.at # "done" \/ orphan
        /\ past'.settled <=> \/ past.settled \/ handler.at = "reply"
                             \/ form.locked /\ form.dirty
    BY <1>1 DEF ClosePage
  <1>4. /\ page' \in [open : BOOLEAN, key : Key \cup {NoKey}, session : Nat]
        /\ ~page'.open
        /\ form.locked => page'.key = form.key /\ page'.session = form.session
    BY <1>1 DEF ClosePage, Form
  <1>5. /\ form.locked => form.key \in Key
        /\ Done \in Handler /\ Done.mode # "OPEN" /\ NoRequest \in Request
    BY DoneTyped DEF IInv, KeysGiven
  <1>6. /\ lease' \in [Key -> [session : Nat \cup {Other},
                               age : 0..LeaseTurns + 1]]
        /\ \A k \in Key : lease'[k].session > 0 => lease'[k] = lease[k]
    <2>1. NoLease \in [session : Nat \cup {Other}, age : 0..LeaseTurns + 1]
          /\ NoLease.session = 0
      BY <1>1 DEF NoLease
    <2>2. lease' = lease \/ lease' = [lease EXCEPT ![form.key] = NoLease]
      BY DEF ClosePage
    <2> QED
      BY <1>1, <2>1, <2>2
  <1>7. ASSUME NothingLost', NEW k \in Key, lease'[k].session > 0
        PROVE  OfCookie(k)'
    <2>1. NothingLost /\ handler.at = "done"
      BY <1>2, <1>3, <1>7 DEF NothingLost
    <2>2. lease'[k] = lease[k] /\ lease[k].session > 0
      BY <1>6, <1>7
    <2>3. OfForm(k, form)
      BY <1>1, <2>1, <2>2 DEF IInv, LeasesKnown, OfGrant, OfCookie, Waiting
    <2> QED
      BY <1>4, <2>2, <2>3 DEF OfForm, OfCookie
  <1>8. IInv'
    BY <1>2, <1>3, <1>4, <1>5, <1>6, <1>7, NoFormLeft
  <1>9. Decided
    <2> SUFFICES ASSUME form.dirty PROVE past'.settled \/ past'.strayed
      BY DEF Decided
    <2>1. CASE form.locked
      BY <1>3, <2>1
    <2>2. CASE ~form.locked
      BY <1>3, <2>2 DEF IInv, EditsSettled, Edited
    <2> QED
      BY <2>1, <2>2
  <1> QED
    BY <1>8, <1>9

LEMMA LoadPageKeeps ==
  ASSUME IInv, LoadPage
  PROVE  IInv' /\ Decided
  <1>1. /\ form \in Form /\ handler \in Handler /\ request \in Request
        /\ past \in [settled : BOOLEAN, strayed : BOOLEAN, gaveUp : BOOLEAN]
        /\ page \in [open : BOOLEAN, key : Key \cup {NoKey}, session : Nat]
        /\ ~page.open /\ handler.at = "done" /\ ~form.locked
        /\ NoKey \notin Key
    BY ClientAssumption DEF LoadPage, IInv, TypeOK, ClientTypeOK, KeysGiven
  <1>2. /\ page' = [open |-> TRUE, key |-> NoKey, session |-> 0]
        /\ form' = Blank /\ orphan' = FALSE /\ relock' = NoRelock
        /\ faults' = faults /\ past' = past /\ lease' = lease /\ disk' = disk
        /\ lastSession' = lastSession /\ lastVersion' = lastVersion
    BY DEF LoadPage, serverVars
  <1>3. Decided
    BY <1>1, <1>2 DEF Decided, IInv, EditsSettled, Edited
  <1>4. ASSUME NothingLost', NEW k \in Key, lease'[k].session > 0
        PROVE  page.key = k /\ page.session = lease[k].session
    <2>1. NothingLost /\ lease[k].session > 0
      BY <1>2, <1>4 DEF NothingLost
    <2> QED
      BY <1>1, <2>1 DEF IInv, LeasesKnown, OfForm, OfGrant, OfCookie, Waiting
  <1>5. /\ lease' \in [Key -> [session : Nat \cup {Other},
                               age : 0..LeaseTurns + 1]]
        /\ past' \in [settled : BOOLEAN, strayed : BOOLEAN, gaveUp : BOOLEAN]
        /\ page' \in [open : BOOLEAN, key : Key \cup {NoKey}, session : Nat]
    BY <1>1, <1>2 DEF IInv, TypeOK
  <1>6. CASE page.key = NoKey
    <2>1. /\ handler' = Done
          /\ \/ request' = NoRequest
             \/ request' = request /\ request.status = "sent"
      BY <1>6 DEF LoadPage, Finish, RequestRead
    <2>2. /\ request' \in Request /\ handler' \in Handler
          /\ handler'.mode = "CLOSE"
      BY <1>1, <2>1, DoneTyped
    <2>3. NothingLost' => \A k \in Key : ~(lease'[k].session > 0)
      BY <1>1, <1>4, <1>6
    <2>4. IInv'
      BY <1>1, <1>2, <1>5, <2>1, <2>2, <2>3, NoFormLeft
    <2> QED
      BY <1>3, <2>4
  <1>7. CASE page.key # NoKey
    <2>1. Send("UNLOCK", page.key, page.session, NoKey, Start("LOAD", NoKey))
      BY <1>7 DEF LoadPage
    <2>2. /\ handler' \in Handler /\ handler'.at = "reply"
          /\ handler'.mode = "LOAD"
      BY <2>1 DEF Send, Start, Done, Handler, YieldPoint, Mode
    <2>3. /\ request' \in Request /\ request'.type = "UNLOCK"
          /\ request'.status = "sent" /\ request'.key = page.key
          /\ request'.session = page.session /\ request'.key \in Key
      BY <1>1, <1>7, <2>1 DEF Send, NoRequest, Request
    <2>4. NothingLost' => \A k \in Key : lease'[k].session > 0 => OfCookie(k)'
      BY <1>2, <1>4, <2>2, <2>3 DEF OfCookie, Waiting
    <2>5. IInv'
      BY <1>2, <1>5, <2>2, <2>3, <2>4, NoFormLeft
    <2> QED
      BY <1>3, <2>5
  <1> QED
    BY <1>6, <1>7

-----------------------------------------------------------------------------
(* The server, and the other browsers.                                     *)

\* The leases and records that a step may leave.
ServerTyped ==
  /\ lease \in [Key -> [session : Nat \cup {Other}, age : 0..LeaseTurns + 1]]
  /\ disk \in [Key -> [version : 0..MaxVersions, own : BOOLEAN]]
  /\ lastSession \in 0..MaxSessions /\ lastVersion \in 0..MaxVersions

\* The request is answered: everything else of the page is left alone.
Answered(result, version, grant) ==
  /\ Served(result, version, grant) /\ request.status = "sent"
  /\ UNCHANGED <<handler, orphan, relock, faults, form, past, page>>

LEMMA AnsweredRequest ==
  ASSUME IInv,
         NEW result \in {"ok", "locked", "failed", "login"},
         NEW version \in Nat, NEW grant \in Nat,
         Answered(result, version, grant)
  PROVE  /\ request' \in Request
         /\ request'.type = request.type /\ request'.key = request.key
         /\ request'.session = request.session /\ request'.data = request.data
         /\ request'.status = "served" /\ request'.result = result
         /\ request'.version = version /\ request'.grant = grant
  BY DEF IInv, TypeOK, ClientTypeOK, Request, Answered, Served

\* What the server says and does must agree, for the rest of IInv.
LEMMA AnsweredKeeps ==
  ASSUME IInv,
         NEW result \in {"ok", "locked", "failed", "login"},
         NEW version \in Nat, NEW grant \in Nat,
         Answered(result, version, grant),
         ServerTyped', lastSession <= lastSession',
         request.type # "none" \/ lease' = lease,
         BaseIsRead', AnswerHolds',
         \A k \in Key : lease'[k].session > 0 =>
           \/ lease'[k].session = lease[k].session
           \/ OfGrant(k)' \/ faults # 0
  PROVE  IInv' /\ Decided
  <1>1. /\ handler' = handler /\ orphan' = orphan /\ relock' = relock
        /\ faults' = faults /\ form' = form /\ past' = past /\ page' = page
        /\ request.status = "sent"
    BY DEF Answered
  <1>2. /\ request' \in Request
        /\ request'.type = request.type /\ request'.key = request.key
        /\ request'.session = request.session /\ request'.data = request.data
        /\ request'.status = "served"
    BY AnsweredRequest
  <1>3. /\ form \in Form /\ lastSession \in Nat /\ lastSession' \in Nat
        /\ form.session \in Nat
    BY FormAssumption DEF IInv, TypeOK, ServerTyped, Form
  <1>4. TypeOK'
    <2>1. ClientTypeOK'
      BY <1>1, <1>2 DEF IInv, TypeOK, ClientTypeOK
    <2> QED
      BY <1>1, <2>1 DEF IInv, TypeOK, ServerTyped
  <1>5. KeysGiven'
    BY <1>1, <1>2, <1>3 DEF IInv, KeysGiven
  <1>6. RequestOfHandler'
    <2>1. handler.at # "resume_login" /\ (Waiting' <=> Waiting)
      BY <1>1 DEF IInv, RequestOfHandler, Waiting
    <2> QED
      BY <1>1, <1>2, <2>1 DEF IInv, RequestOfHandler
  <1>7. WriteOfForm' /\ QuestionOfForm' /\ WrittenOf'
    BY <1>1, <1>2 DEF IInv, WriteOfForm, QuestionOfForm, WrittenOf
  <1>8. EditsSettled' /\ ShownIsLocked' /\ WritesItsOwn' /\ RelockerLocked'
    <2>1. Discarding' <=> Discarding
      BY <1>1, <1>2 DEF Discarding, Waiting
    <2> QED
      BY <1>1, <1>2, <2>1
      DEF IInv, EditsSettled, Edited, ShownIsLocked, WritesItsOwn,
          RelockerLocked
  <1>9. NoneGivenUp'
    BY <1>1, <1>2 DEF IInv, NoneGivenUp
  <1>10. LeasesKnown'
    <2> SUFFICES ASSUME NothingLost', NEW k \in Key, lease'[k].session > 0,
                        lease'[k].session = lease[k].session
                 PROVE  OfForm(k, form)' \/ OfCookie(k)'
      BY <1>1 DEF LeasesKnown, NothingLost
    <2>1. OfForm(k, form) \/ OfCookie(k)
      BY <1>1 DEF IInv, LeasesKnown, NothingLost, OfGrant
    <2> QED
      BY <1>1, <1>2, <2>1 DEF OfForm, OfCookie, Waiting
  <1>11. Decided
    BY <1>1 DEF Decided
  <1> QED
    BY <1>4, <1>5, <1>6, <1>7, <1>8, <1>9, <1>10, <1>11 DEF IInv

LEMMA ServeRefusedKeeps ==
  ASSUME IInv, NEW result \in {"failed", "login"}, Answered(result, 0, 0),
         UNCHANGED serverVars
  PROVE  IInv' /\ Decided
  <1>1. /\ lease' = lease /\ disk' = disk /\ lastSession' = lastSession
        /\ lastVersion' = lastVersion /\ form' = form
    BY DEF serverVars, Answered
  <1>2. request'.result = result
    BY AnsweredRequest
  <1>3. ServerTyped' /\ BaseIsRead' /\ lastSession <= lastSession'
    BY <1>1, FormAssumption
    DEF IInv, TypeOK, ServerTyped, BaseIsRead, Current
  <1>4. AnswerHolds'
    BY <1>2 DEF AnswerHolds
  <1> QED
    BY <1>1, <1>3, <1>4, AnsweredKeeps

\* A new lease has a session that nobody has.
LEMMA ServeReadKeeps ==
  ASSUME IInv, Serve, ServeRead(request.key)
  PROVE  IInv' /\ Decided
  <1>1. PICK k \in Key : request.key = k /\ request.status = "sent"
                         /\ request.type = "READU"
    BY DEF Serve, ServeRead, IInv, KeysGiven
  <1>2. /\ request.status = "sent" /\ request.type = "READU" /\ k \in Key
        /\ form' = form /\ disk' = disk /\ lastVersion' = lastVersion
        /\ handler' = handler /\ faults' = faults
    BY <1>1 DEF Serve, ServeRead
  <1>3. ServerTyped /\ disk[k].version \in Nat
    BY <1>2, FormAssumption DEF IInv, TypeOK, ServerTyped
  <1>4. CASE /\ lastSession' = lastSession + 1 /\ lastSession < MaxSessions
             /\ lease' = [lease EXCEPT
                            ![k] = [session |-> lastSession', age |-> 0]]
             /\ Served("ok", disk[k].version, lastSession')
    <2>1. /\ lastSession' = lastSession + 1 /\ lastSession < MaxSessions
          /\ lease' = [lease EXCEPT
                         ![k] = [session |-> lastSession', age |-> 0]]
          /\ Answered("ok", disk[k].version, lastSession')
      BY <1>1, <1>4 DEF Serve, Answered
    <2>2. lastSession' \in 1..MaxSessions
      BY <1>3, <2>1, FormAssumption DEF ServerTyped
    <2>3. /\ ServerTyped' /\ lastSession <= lastSession'
          /\ lease'[k].session = lastSession'
          /\ \A j \in Key \ {k} : lease'[j] = lease[j]
      BY <1>2, <1>3, <2>1, <2>2, FormAssumption DEF ServerTyped
    <2>4. /\ request'.type = "READU" /\ request'.key = k
          /\ request'.status = "served" /\ request'.result = "ok"
          /\ request'.version = disk[k].version
          /\ request'.grant = lastSession'
      BY <1>1, <1>2, <1>3, <2>1, <2>2, AnsweredRequest
    <2>5. BaseIsRead'
      <3>1. form.locked => form.session # lastSession'
        BY <1>3, <2>1, FormAssumption DEF IInv, KeysGiven, ServerTyped
      <3>2. form.locked => form.key \in Key
        BY DEF IInv, KeysGiven
      <3> QED
        BY <1>2, <2>3, <3>1, <3>2 DEF IInv, BaseIsRead, Current
    <2>6. AnswerHolds'
      BY <1>2, <2>2, <2>4 DEF AnswerHolds, Current, Writes
    <2>7. faults = 0 => OfGrant(k)'
      BY <1>2, <2>3, <2>4 DEF IInv, NoneGivenUp, OfGrant, Waiting
    <2> QED
      BY <1>2, <1>3, <2>1, <2>2, <2>3, <2>5, <2>6, <2>7, AnsweredKeeps
  <1>5. CASE /\ lease' = lease \/ lease' = [lease EXCEPT ![k] = NoLease]
             /\ Served("locked", disk[k].version, 0)
             /\ lastSession' = lastSession
    <2>1. Answered("locked", disk[k].version, 0)
      BY <1>1, <1>5 DEF Serve, Answered
    <2>2. request'.type = "READU" /\ request'.result = "locked"
      BY <1>2, <1>3, <2>1, AnsweredRequest
    <2>3. /\ ServerTyped' /\ lastSession <= lastSession'
          /\ \A j \in Key : lease'[j] = lease[j] \/ lease'[j].session = 0
      BY <1>2, <1>3, <1>5, FormAssumption DEF ServerTyped, NoLease
    <2>4. BaseIsRead'
      <3>1. form.locked => form.key \in Key /\ form.session > 0
        BY <1>3 DEF IInv, KeysGiven, ServerTyped
      <3> QED
        BY <1>2, <2>3, <3>1 DEF IInv, BaseIsRead, Current
    <2>5. AnswerHolds'
      BY <2>2 DEF AnswerHolds
    <2>6. \A j \in Key : lease'[j].session > 0 =>
            lease'[j].session = lease[j].session
      BY <2>3
    <2> QED
      BY <1>2, <1>3, <2>1, <2>3, <2>4, <2>5, <2>6, AnsweredKeeps
  <1> QED
    BY <1>1, <1>4, <1>5 DEF ServeRead

\* The lease that a write keeps is of a record that the form has written.
LEMMA ServeWriteKeeps ==
  ASSUME IInv, Serve, ServeWrite(request.key)
  PROVE  IInv' /\ Decided
  <1> DEFINE k == request.key
             v == IF request.type = "DELETE" THEN 0 ELSE lastVersion'
  <1>1. /\ request.status = "sent" /\ request.type \in Writes /\ k \in Key
        /\ form' = form /\ lastSession' = lastSession
        /\ lastVersion' = lastVersion + 1 /\ lastVersion < MaxVersions
    BY DEF Serve, ServeWrite, IInv, KeysGiven, Writes
  <1>2. ServerTyped
    BY DEF IInv, TypeOK, ServerTyped
  <1>3. lastVersion' \in 0..MaxVersions /\ v \in 0..MaxVersions
    BY <1>1, <1>2, FormAssumption DEF ServerTyped
  <1>4. /\ disk' = [disk EXCEPT ![k] = [version |-> v, own |-> TRUE]]
        /\ lease' = [lease EXCEPT ![k] =
                       IF request.type = "WRITE" THEN [@ EXCEPT !.age = 0]
                                                 ELSE NoLease]
    BY DEF ServeWrite
  <1>5. PICK result \in {"ok", "failed"} :
          Served(result, IF result = "ok" THEN disk'[k].version ELSE 0, 0)
    BY DEF ServeWrite
  <1> HIDE DEF v
  <1>6. /\ disk'[k].version = v /\ disk'[k].own
        /\ \A j \in Key \ {k} : disk'[j] = disk[j] /\ lease'[j] = lease[j]
        /\ lease'[k].session \in {lease[k].session, 0}
        /\ lease'[k].session > 0 => request.type = "WRITE"
    BY <1>1, <1>2, <1>3, <1>4, FormAssumption DEF ServerTyped, NoLease
  <1>7. ServerTyped' /\ lastSession <= lastSession'
    BY <1>1, <1>2, <1>3, <1>4, FormAssumption DEF ServerTyped, NoLease
  <1>8. PICK version \in Nat : Answered(result, version, 0)
    BY <1>1, <1>3, <1>5, <1>6, FormAssumption DEF Serve, Answered
  <1>9. request'.type = request.type /\ request'.key = k
        /\ request'.result = result /\ request'.session = request.session
    BY <1>8, AnsweredRequest
  <1> HIDE DEF k
  <1>10. BaseIsRead'
    <2>1. /\ form.locked /\ form.key \in Key
          /\ form.session \in 1..lastSession
      BY <1>1 DEF IInv, WriteOfForm, KeysGiven
    <2> QED
      BY <1>1, <1>2, <1>6, <2>1 DEF IInv, BaseIsRead, Current
  <1>11. AnswerHolds'
    BY <1>1, <1>6, <1>9 DEF AnswerHolds, Writes
  <1>12. \A j \in Key : lease'[j].session > 0 =>
           lease'[j].session = lease[j].session
    BY <1>6
  <1> QED
    BY <1>1, <1>7, <1>8, <1>10, <1>11, <1>12, AnsweredKeeps DEF Writes

\* A write that is refused may have renewed the lease.
LEMMA ServeRenewedKeeps ==
  ASSUME IInv, Serve, ServeRenewed(request.key)
  PROVE  IInv' /\ Decided
  <1> DEFINE k == request.key
  <1>1. /\ request.status = "sent" /\ request.type \in Writes /\ k \in Key
        /\ form' = form /\ disk' = disk /\ lastSession' = lastSession
        /\ lastVersion' = lastVersion
        /\ lease' = [lease EXCEPT ![k].age = 0]
        /\ Answered("failed", 0, 0)
    BY DEF Serve, ServeRenewed, IInv, KeysGiven, Answered, Writes
  <1>2. ServerTyped
    BY DEF IInv, TypeOK, ServerTyped
  <1>3. /\ ServerTyped' /\ lastSession <= lastSession'
        /\ \A j \in Key : lease'[j].session = lease[j].session
    BY <1>1, <1>2, FormAssumption DEF ServerTyped
  <1>4. request'.result = "failed"
    BY <1>1, AnsweredRequest
  <1> HIDE DEF k
  <1>5. BaseIsRead'
    BY <1>1, <1>3 DEF IInv, KeysGiven, BaseIsRead, Current
  <1>6. AnswerHolds'
    BY <1>4 DEF AnswerHolds
  <1> QED
    BY <1>1, <1>3, <1>5, <1>6, AnsweredKeeps DEF Writes

LEMMA ServeUnlockKeeps ==
  ASSUME IInv, Serve, ServeUnlock(request.key)
  PROVE  IInv' /\ Decided
  <1> DEFINE k == request.key
  <1>1. /\ request.status = "sent" /\ request.type = "UNLOCK" /\ k \in Key
        /\ form' = form /\ disk' = disk /\ lastSession' = lastSession
        /\ lastVersion' = lastVersion
        /\ lease' = [lease EXCEPT ![k] = NoLease]
        /\ Answered("ok", 0, 0)
    BY DEF Serve, ServeUnlock, IInv, KeysGiven, Answered
  <1>2. ServerTyped
    BY DEF IInv, TypeOK, ServerTyped
  <1>3. /\ ServerTyped' /\ lastSession <= lastSession'
        /\ \A j \in Key \ {k} : lease'[j] = lease[j]
        /\ lease'[k] = NoLease
    BY <1>1, <1>2, FormAssumption DEF ServerTyped, NoLease
  <1>4. request'.type = "UNLOCK" /\ request'.key = k
        /\ request'.result = "ok" /\ request'.session = request.session
    BY <1>1, AnsweredRequest
  <1> HIDE DEF k
  <1>5. BaseIsRead'
    <2> SUFFICES ASSUME form.locked, lease'[form.key].session = form.session
                 PROVE  Current(form.key, form.base)
      BY <1>1 DEF BaseIsRead, Current
    <2>1. form.key \in Key /\ form.session > 0
      BY <1>2 DEF IInv, KeysGiven, ServerTyped
    <2>2. lease'[form.key] = lease[form.key]
      BY <1>3, <2>1 DEF NoLease
    <2> QED
      BY <2>2 DEF IInv, BaseIsRead
  <1>6. AnswerHolds'
    BY <1>3, <1>4 DEF AnswerHolds, NoLease, Writes
  <1>7. \A j \in Key : lease'[j].session > 0 =>
          lease'[j].session = lease[j].session
    BY <1>3 DEF NoLease
  <1> QED
    BY <1>1, <1>3, <1>5, <1>6, <1>7, AnsweredKeeps

LEMMA ServeKeeps ==
  ASSUME IInv, Serve
  PROVE  IInv' /\ Decided
  <1>1. ASSUME ServeRefused PROVE IInv' /\ Decided
    <2>1. PICK result \in {"failed", "login"} : Answered(result, 0, 0)
      BY <1>1 DEF ServeRefused, Serve, Answered
    <2> QED
      BY <1>1, <2>1, ServeRefusedKeeps DEF ServeRefused
  <1> QED
    BY <1>1, ServeReadKeeps, ServeRenewedKeeps, ServeWriteKeeps,
       ServeUnlockKeeps DEF Serve

\* Another browser writes only what it has locked, and then the form has no
\* lease of it.
LEMMA OtherEditsKeeps ==
  ASSUME IInv, NEW k \in Key, OtherEdits(k)
  PROVE  IInv' /\ Decided
  <1>1. /\ handler' = handler /\ request' = request /\ orphan' = orphan
        /\ relock' = relock /\ faults' = faults /\ form' = form
        /\ past' = past /\ page' = page /\ lastSession' = lastSession
    BY DEF OtherEdits, clientVars
  <1>2. ServerTyped /\ form \in Form
    BY DEF IInv, TypeOK, ServerTyped
  <1>3. /\ ServerTyped'
        /\ \A j \in Key \ {k} : disk'[j] = disk[j] /\ lease'[j] = lease[j]
        /\ lease'[k].session \in {Other, 0}
    <2>1. CASE /\ lease' = [lease EXCEPT ![k] = [session |-> Other, age |-> 0]]
               /\ disk' = disk /\ lastVersion' = lastVersion
      BY <1>1, <1>2, <2>1, FormAssumption DEF ServerTyped, Other
    <2>2. CASE /\ lastVersion < MaxVersions /\ lastVersion' = lastVersion + 1
               /\ disk' = [disk EXCEPT ![k] =
                             [version |-> lastVersion', own |-> FALSE]]
               /\ lease' = [lease EXCEPT ![k] = NoLease]
      <3>1. lastVersion' \in 0..MaxVersions
        BY <1>2, <2>2, FormAssumption DEF ServerTyped
      <3>2. NoLease \in [session : Nat \cup {Other}, age : 0..LeaseTurns + 1]
            /\ NoLease.session = 0
        BY FormAssumption DEF NoLease
      <3>3. lastVersion' \in 0..MaxVersions /\ lastSession' \in 0..MaxSessions
        BY <1>1, <1>2, <3>1 DEF ServerTyped
      <3> QED
        BY <1>2, <2>2, <3>2, <3>3 DEF ServerTyped
    <2>3. CASE /\ lease' = [lease EXCEPT ![k] = NoLease]
               /\ disk' = disk /\ lastVersion' = lastVersion
      BY <1>1, <1>2, <2>3, FormAssumption DEF ServerTyped, NoLease
    <2> QED
      BY <2>1, <2>2, <2>3 DEF OtherEdits
  <1>4. TypeOK'
    BY <1>1, <1>3 DEF IInv, TypeOK, ClientTypeOK, ServerTyped
  <1>5. KeysGiven' /\ RequestOfHandler' /\ WriteOfForm' /\ QuestionOfForm'
    BY <1>1
    DEF IInv, KeysGiven, RequestOfHandler, WriteOfForm, QuestionOfForm, Waiting
  <1>6. /\ EditsSettled' /\ ShownIsLocked' /\ WritesItsOwn' /\ RelockerLocked'
        /\ NoneGivenUp'
    BY <1>1
    DEF IInv, EditsSettled, ShownIsLocked, WritesItsOwn, RelockerLocked,
        NoneGivenUp, Edited, Discarding, Waiting
  <1>7. BaseIsRead'
    <2> SUFFICES ASSUME form.locked, lease'[form.key].session = form.session
                 PROVE  Current(form.key, form.base)'
      BY <1>1 DEF BaseIsRead
    <2>1. form.key \in Key /\ form.session \in 1..lastSession
      BY DEF IInv, KeysGiven
    <2>2. form.key # k
      BY <1>2, <1>3, <2>1 DEF Other, ServerTyped
    <2> QED
      BY <1>1, <1>3, <2>1, <2>2 DEF IInv, BaseIsRead, Current
  <1>8. AnswerHolds'
    <2> SUFFICES ASSUME request.status = "served", request.result = "ok",
                        request.type \in Writes \cup {"READU", "UNLOCK"}
                 PROVE  AnswerHolds'
      BY <1>1 DEF IInv, AnswerHolds
    <2>1. request.key \in Key
      BY DEF IInv, KeysGiven, Writes
    <2>2. CASE request.key # k
      BY <1>1, <1>3, <2>1, <2>2 DEF IInv, AnswerHolds, Current, Writes
    <2>3. CASE request.key = k
      <3>1. /\ ~(lease'[k].session > 0)
            /\ request.type = "READU" => request.grant \in 1..lastSession
        BY <1>3 DEF Other, IInv, AnswerHolds
      <3> QED
        BY <1>1, <1>2, <2>3, <3>1
        DEF AnswerHolds, Writes, ServerTyped
    <2> QED
      BY <2>2, <2>3
  <1>10. WrittenOf'
    <2> SUFFICES ASSUME handler.at = "written",
                        Unlocks(handler.mode)
                 PROVE  lease'[form.key].session # form.session
      BY <1>1 DEF IInv, WrittenOf
    <2>1. /\ form.key \in Key /\ form.session \in 1..lastSession
          /\ lease[form.key].session # form.session
      BY DEF IInv, WrittenOf, KeysGiven
    <2> QED
      BY <1>2, <1>3, <2>1 DEF Other, ServerTyped
  <1>9. LeasesKnown'
    <2> SUFFICES ASSUME NothingLost', NEW j \in Key, lease'[j].session > 0
                 PROVE  OfForm(j, form)' \/ OfGrant(j)' \/ OfCookie(j)'
      BY DEF LeasesKnown
    <2>1. lease'[j] = lease[j] /\ NothingLost
      BY <1>1, <1>3 DEF Other, NothingLost
    <2> QED
      BY <1>1, <2>1 DEF IInv, LeasesKnown, OfForm, OfGrant, OfCookie, Waiting
  <1> QED
    BY <1>1, <1>4, <1>5, <1>6, <1>7, <1>8, <1>9, <1>10 DEF IInv, Decided

-----------------------------------------------------------------------------
(* The invariant, and what follows from it.                                *)

LEMMA InitKeeps ==
  ASSUME Init
  PROVE  IInv
  <1>1. /\ form = Blank /\ handler = Done /\ request = NoRequest
        /\ relock = NoRelock /\ orphan = FALSE /\ faults = 0
        /\ page = [open |-> TRUE, key |-> NoKey, session |-> 0]
        /\ \A k \in Key : lease[k] = NoLease
    BY DEF Init, ClientInit
  <1>2. /\ Blank \in Form /\ ~Blank.locked /\ ~Blank.relocker
        /\ ~Blank.dirty /\ ~Blank.typing
    BY DEF Blank, Form
  <1>3. TypeOK
    <2>1. ClientTypeOK
      <3>1. handler \in Handler /\ request \in Request /\ orphan \in BOOLEAN
        BY <1>1, DoneTyped
      <3>2. relock \in Relock
        BY <1>1 DEF NoRelock, Relock
      <3>3. faults \in 0..MaxFaults
        BY <1>1, ClientAssumption
      <3> QED
        BY <3>1, <3>2, <3>3 DEF ClientTypeOK
    <2>2. /\ lease \in [Key -> [session : Nat \cup {Other},
                                age : 0..LeaseTurns + 1]]
          /\ disk \in [Key -> [version : 0..MaxVersions, own : BOOLEAN]]
      BY FormAssumption DEF Init, NoLease
    <2> QED
      BY <1>2, <2>1, <2>2, FormAssumption DEF Init, TypeOK
  <1>4. Done.mode = "CLOSE" /\ Done.at = "done" /\ ~Waiting
    BY <1>1, DoneTyped DEF Waiting
  <1>5. /\ request.type = "none" /\ request.status = "served"
        /\ request.result = "failed"
    BY <1>1 DEF NoRequest
  <1>6. /\ KeysGiven /\ RequestOfHandler /\ WriteOfForm /\ QuestionOfForm
        /\ WrittenOf
    BY <1>1, <1>2, <1>4, <1>5
    DEF KeysGiven, RequestOfHandler, WriteOfForm, QuestionOfForm, WrittenOf,
        Writes
  <1>7. /\ EditsSettled /\ ShownIsLocked /\ WritesItsOwn /\ RelockerLocked
        /\ BaseIsRead
    BY <1>1, <1>2, <1>5
    DEF EditsSettled, Edited, ShownIsLocked, WritesItsOwn, RelockerLocked,
        BaseIsRead
  <1>8. AnswerHolds /\ NoneGivenUp /\ LeasesKnown
    BY <1>1, <1>5
    DEF AnswerHolds, NoneGivenUp, LeasesKnown, NoLease, Writes
  <1> QED
    BY <1>3, <1>6, <1>7, <1>8 DEF IInv

LEMMA StepKeeps ==
  ASSUME IInv, [Next]_vars
  PROVE  IInv' /\ Decided
  <1>1. CASE UNCHANGED vars
    <2>1. /\ UNCHANGED <<handler, request, faults, form, past, page, disk,
                         lastSession, lastVersion>>
          /\ relock' = relock /\ orphan' = orphan /\ lease' = lease
      BY <1>1 DEF vars, clientVars, serverVars
    <2>2. /\ relock \in Relock /\ orphan \in BOOLEAN
          /\ lease \in [Key -> [session : Nat \cup {Other},
                                age : 0..LeaseTurns + 1]]
      BY DEF IInv, TypeOK, ClientTypeOK
    <2> QED
      BY <2>1, <2>2, OnlyAges
  <1>2. CASE UserEvent
    <2>1. CASE Type \/ Undo \/ LeaveField
      BY <2>1, TypeKeeps, UndoKeeps, LeaveFieldKeeps
    <2>2. CASE EditRelease \/ SaveRecord \/ DeleteRecord
      BY <2>2, EditReleaseKeeps, SaveRecordKeeps, DeleteRecordKeeps
    <2>3. CASE \E k \in Key : EnterKey(k)
      BY <2>3, EnterKeyKeeps
    <2>4. CASE \E mode \in {"CLOSE", "CLEAR", "NEW", "PRINT"} :
                 LeaveRecord(mode)
      BY <2>4, LeaveRecordKeeps
    <2>5. CASE ClosePage \/ LoadPage
      BY <2>5, ClosePageKeeps, LoadPageKeeps
    <2> QED
      BY <1>2, <2>1, <2>2, <2>3, <2>4, <2>5 DEF UserEvent
  <1>3. CASE UserAnswers \/ Reply \/ ReplyFails
    BY <1>3, UserAnswersKeeps, ReplyKeeps, ReplyFailsKeeps
  <1>4. CASE Stray
    BY <1>4, StrayToNobodyKeeps, StrayToRequestKeeps, StrayToQuestionKeeps
    DEF Stray
  <1>5. CASE Turn \/ Serve \/ ServeRelock
    BY <1>5, TurnKeeps, ServeKeeps, ServeRelockKeeps
  <1>6. CASE \E k \in Key : OtherEdits(k)
    BY <1>6, OtherEditsKeeps
  <1> QED
    BY <1>1, <1>2, <1>3, <1>4, <1>5, <1>6 DEF Next

\* The invariant of the documents of forms, in every state that the page, its
\* handlers, the server and the other browsers reach.
THEOREM Invariance == Spec => []IInv
  <1>1. Init => IInv
    BY InitKeeps
  <1>2. IInv /\ [Next]_vars => IInv'
    BY StepKeeps
  <1> QED
    BY <1>1, <1>2, PTL DEF Spec

\* The globals of the form, its handlers and requests, the leases and the
\* records keep their types.
THEOREM TypeCorrect == Spec => []TypeOK
  <1>1. IInv => TypeOK
    BY DEF IInv
  <1> QED
    BY <1>1, Invariance, PTL

\* In a form that may create records, what writedoc() sends under a key are
\* the fields of the record of that key: no handler changes the key or the
\* document between the two, nor does a stray reply.
THEOREM WritesAreOwn == Spec => []WritesItsOwn
  <1>1. IInv => WritesItsOwn
    BY DEF IInv
  <1> QED
    BY <1>1, Invariance, PTL

\* unlockdoc(), window_onunload_sync() and opendoc2(): unless a request was
\* lost, the user gave it up or a reply went astray, every lease that a form
\* was given is known to it or to the cookie, and relockdoc() only ever runs
\* for a document that is locked.
THEOREM NoLeaseIsForgotten == Spec => []NoForgottenLease
  <1>1. IInv => NoForgottenLease
    <2> SUFFICES ASSUME IInv PROVE NoForgottenLease
      OBVIOUS
    <2>1. form.relocker => form.locked
      BY DEF IInv, RelockerLocked
    <2>2. faults \in Nat
      BY ClientAssumption DEF IInv, TypeOK, ClientTypeOK
    <2>3. ASSUME faults = 0, ~past.gaveUp, ~past.strayed,
                 NEW k \in Key, lease[k].session > 0
          PROVE  Known(k)
      <3>1. OfForm(k, form) \/ OfGrant(k) \/ OfCookie(k)
        BY <2>3 DEF IInv, LeasesKnown, NothingLost
      <3> QED
        BY <3>1 DEF Known, OfForm, OfGrant, OfCookie, Waiting
    <2> QED
      BY <2>1, <2>2, <2>3 DEF NoForgottenLease
  <1> QED
    BY <1>1, Invariance, PTL

\* saveandorcleardoc() and its callers: until a stray reply has resumed a
\* handler, unsaved changes are only dropped when they are saved or the user
\* says so, whatever the order of events, answers and replies.
THEOREM ChangesAreKept == Spec => EditsKept
  <1>1. IInv /\ [Next]_vars =>
          [form.dirty /\ ~form'.dirty => past'.settled \/ past'.strayed]_vars
    BY StepKeeps DEF Decided
  <1> QED
    BY <1>1, Invariance, PTL DEF Spec, EditsKept

\* The records are written by the server only, for the form or for others.
LEMMA WritersOfDisk ==
  ASSUME IInv, [Next]_vars
  PROVE  \/ disk' = disk
         \/ Serve /\ ServeWrite(request.key)
         \/ \E k \in Key : OtherEdits(k)
  <1>1. UNCHANGED vars => disk' = disk
    BY DEF vars, serverVars
  <1>2. CASE UserEvent
    <2>1. Event \/ ClosePage \/ LoadPage
      BY <1>2
      DEF UserEvent, Type, Undo, LeaveField, EditRelease, SaveRecord,
          DeleteRecord, EnterKey, LeaveRecord
    <2> QED
      BY <2>1 DEF Event, ClosePage, LoadPage, serverVars
  <1>3. UserAnswers \/ Reply \/ ReplyFails => disk' = disk
    BY DEF UserAnswers, Reply, ReplyFails, serverVars
  <1>4. Stray \/ Turn \/ ServeRelock => disk' = disk
    BY DEF Stray, StrayToNobody, StrayToRequest, StrayToQuestion, Turn,
           ServeRelock, serverVars
  <1>5. Serve => disk' = disk \/ ServeWrite(request.key)
    BY DEF Serve, ServeRefused, ServeRead, ServeRenewed, ServeUnlock, serverVars
  <1> QED
    BY <1>1, <1>2, <1>3, <1>4, <1>5 DEF Next

\* A write of the form that the server accepts is one of the version that the
\* form has read, or of one that the form has written itself.
LEMMA WriteIsOfBase ==
  ASSUME IInv, [Next]_vars, NEW k \in Key, disk'[k] # disk[k], disk'[k].own
  PROVE  disk[k].own \/ disk[k].version = form.base
  <1>1. disk \in [Key -> [version : 0..MaxVersions, own : BOOLEAN]]
    BY DEF IInv, TypeOK
  <1>2. CASE Serve /\ ServeWrite(request.key)
    <2>1. /\ request.type \in Writes /\ request.status = "sent"
          /\ lease[request.key].session = request.session
      BY <1>2 DEF Serve, ServeWrite, Holds, Writes
    <2>2. /\ form.locked /\ request.key = form.key
          /\ request.session = form.session
      BY <2>1 DEF IInv, WriteOfForm
    <2>3. k = request.key
      BY <1>1, <1>2 DEF ServeWrite
    <2> QED
      BY <2>1, <2>2, <2>3 DEF IInv, BaseIsRead, Current
  <1>3. ASSUME NEW j \in Key, OtherEdits(j) PROVE FALSE
    <2>1. \/ disk' = disk
          \/ disk' = [disk EXCEPT ![j] = [version |-> lastVersion',
                                          own |-> FALSE]]
      BY <1>3 DEF OtherEdits
    <2> QED
      BY <1>1, <2>1
  <1> QED
    BY <1>2, <1>3, WritersOfDisk

\* savedoc and deletedoc, while leases expire and others lock and write: an
\* update of another browser that the form has not seen is never overwritten.
THEOREM NoUpdateIsOverwritten == Spec => NoLostUpdate
  <1>1. IInv /\ [Next]_vars =>
          [\A k \in Key :
             disk'[k] # disk[k] /\ disk'[k].own =>
               disk[k].own \/ disk[k].version = form.base]_vars
    BY WriteIsOfBase
  <1> QED
    BY <1>1, Invariance, PTL DEF Spec, NoLostUpdate
=============================================================================
