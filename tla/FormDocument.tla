---------------------------- MODULE FormDocument ----------------------------
(***************************************************************************)
(* The document of a form: opening, editing, saving, closing and deleting  *)
(* a record in the browser (service/www/3/exodus/scripts/dbform.js), over  *)
(* the handlers and requests of ClientRequests, against a server that      *)
(* leases records to one editor at a time (RecordLeases).                  *)
(*                                                                         *)
(* One action is the run of a handler from one yield to the next.  Other   *)
(* browsers lock, write and unlock the same records.  Time is counted in   *)
(* turns of the relocker; the leases of others may end at any time.        *)
(*                                                                         *)
(* Forms may have hooks (form_preread, form_postread, form_prewrite):      *)
(* whether one is there and what it returns is left open.                  *)
(***************************************************************************)
EXTENDS ClientRequests

CONSTANTS
  UpdateOnly,      \* gupdateonlymode, that some pages set
  LeaseTurns,      \* turns of the relocker in a lease
  MaxSessions,     \* bound: session ids given to the form
  MaxVersions      \* bound: versions of records that are written

ASSUME FormAssumption ==
  /\ UpdateOnly \in BOOLEAN /\ LeaseTurns \in Nat
  /\ MaxSessions \in Nat /\ MaxVersions \in Nat \ {0}


VARIABLES
  form,            \* the globals of the form
  past,            \* what has happened (for the properties)
  page,            \* the window, and the cookie EXODUSpending it may leave
  lease, disk,     \* LOCKS and the records, on the server
  lastSession, lastVersion

serverVars == <<lease, disk, lastSession, lastVersion>>
vars == <<clientVars, form, past, page, serverVars>>

Other == -1                     \* the session of another browser

\* gkey, gloaded, glocked, gchangesmade, gds.isnewrecord, gro.sessionid, and
\*   shown    the key of the record whose fields are on the screen (gds.data)
\*   typing   the current field differs from gpreviousvalue
\*   first    that field is gelementthatjustcalledsetchangesmade
\*   base     the version that was read or written last
\*   relocker the interval of relockdoc() is running
Form ==
  [key : Key \cup {NoKey}, shown : Key \cup {NoKey}, loaded : BOOLEAN,
   locked : BOOLEAN, dirty : BOOLEAN, typing : BOOLEAN, first : BOOLEAN,
   isnew : BOOLEAN, session : Nat, base : Nat, relocker : BOOLEAN]

Blank ==
  [key |-> NoKey, shown |-> NoKey, loaded |-> FALSE, locked |-> FALSE,
   dirty |-> FALSE, typing |-> FALSE, first |-> FALSE, isnew |-> FALSE,
   session |-> 0, base |-> 0, relocker |-> FALSE]

NoLease == [session |-> 0, age |-> 0]
NoCookie == [key |-> NoKey, session |-> 0]

TypeOK ==
  /\ ClientTypeOK
  /\ form \in Form
  /\ past \in [settled : BOOLEAN, strayed : BOOLEAN, gaveUp : BOOLEAN]
  /\ page \in [open : BOOLEAN, key : Key \cup {NoKey}, session : Nat]
  /\ lease \in [Key -> [session : Nat \cup {Other}, age : 0..LeaseTurns + 1]]
  /\ disk \in [Key -> [version : 0..MaxVersions, own : BOOLEAN]]
  /\ lastSession \in 0..MaxSessions /\ lastVersion \in 0..MaxVersions

Init ==
  /\ ClientInit
  /\ form = Blank
  /\ past = [settled |-> TRUE, strayed |-> FALSE, gaveUp |-> FALSE]
  /\ page = [open |-> TRUE, key |-> NoKey, session |-> 0]
  /\ lease = [k \in Key |-> NoLease]
  /\ disk = [k \in Key |-> [version |-> 0, own |-> FALSE]]
  /\ lastSession = 0 /\ lastVersion = 0

Idle == page.open /\ EventStarts

-----------------------------------------------------------------------------
(* Answers of the user.                                                    *)

Cancel == 0
Yes == 1
No == 2
Ok == 3      \* 'ok', the value with which a reply resumes a handler

-----------------------------------------------------------------------------
(* The pieces that handlers are made of.  f is the form as the handler has *)
(* left it so far, h its locals; each piece ends in a yield or in Finish.  *)

\* setchangesmade(false), setgpreviouselement(null)
Clean(f) == [f EXCEPT !.dirty = FALSE, !.typing = FALSE, !.first = FALSE]

\* validateupdate() when it accepts the current field.
Validated(f) ==
  IF f.typing THEN [f EXCEPT !.typing = FALSE, !.first = FALSE, !.dirty = TRUE]
              ELSE f

\* opendoc2(), after the open document is closed: preread, then READU.
OpenRead(f, h) ==
  LET g == [f EXCEPT !.key = h.next, !.session = 0]
  IN \/ form' = [f EXCEPT !.key = h.next] /\ Finish
     \/ form' = g /\ Send("READU", h.next, 0, NoKey, h)

\* saveandorcleardoc() returns true: opendoc2() goes on, others are done.
Settled(f, h) ==
  IF h.mode = "OPEN" THEN OpenRead([f EXCEPT !.dirty = FALSE], h)
                     ELSE form' = [f EXCEPT !.dirty = FALSE] /\ Finish

\* cleardoc(), once nothing is locked.
Cleared(f, h) ==
  Settled([Blank EXCEPT !.relocker = f.relocker], h)

\* unlockdoc() returns, in cleardoc() or in saveandorcleardoc().
Unlocked(f, h) ==
  LET g == [f EXCEPT !.locked = FALSE]
  IN IF h.clear THEN Cleared(g, h) ELSE Settled(g, h)

UnlockDoc(f, h) ==
  LET g == [f EXCEPT !.relocker = FALSE]
  IN IF g.locked
     THEN form' = g /\ Send("UNLOCK", g.key, g.session, NoKey, h)
     ELSE Unlocked(g, h)

\* saveandorcleardoc(), after saving or not: clear, unlock, or neither.
Clears(mode) == mode \in {"CLOSE", "NEW", "CLEAR"}

\* Variant: to open another document is not a reason to unlock.
UnlocksButOpen(mode) == mode \notin {"SAVE", "PRINT", "NEW", "OPEN"}

Unlocks(mode) == mode \notin {"SAVE", "PRINT", "NEW"}

ClearOrUnlock(f, h) ==
  IF h.clear \/ Clears(h.mode) THEN UnlockDoc(f, [h EXCEPT !.clear = TRUE])
  ELSE IF Unlocks(h.mode) /\ f.locked THEN UnlockDoc(f, h)
  ELSE Settled(f, h)

\* writedoc(): validateall() and form_prewrite may refuse.
WriteDoc(f, h) ==
  \/ form' = f /\ Note
  \/ form' = [f EXCEPT !.relocker = FALSE]
     /\ Send(IF Unlocks(h.mode) THEN "WRITEU" ELSE "WRITE",
             f.key, f.session, f.shown, h)

\* Variant: "Nothing updated" looks at saved fields only.
UnsavedIfValid(f) == f.locked /\ f.dirty /\ ~f.typing

\* "if anything updated then option to save"
Unsaved(f) == f.locked /\ (f.dirty \/ f.typing)

\* saveandorcleardoc(mode): the current field is validated first, but for
\* CLOSE, and the user asked, but for SAVE in a form with a prewrite.
SaveAndOrClear(f, h) ==
  IF ~Unsaved(f) THEN ClearOrUnlock(f, h)
  ELSE \/ /\ f.typing /\ h.mode # "CLOSE"
          /\ form' = f /\ Finish
       \/ /\ form' = IF h.mode = "CLOSE" THEN f ELSE Validated(f)
          /\ Ask("save_or_discard", h)
       \/ h.mode = "SAVE" /\ WriteDoc(Validated(f), h)

\* Variant: postread is run on the old document.
ShowDocUncleaned(f, h) == form' = [f EXCEPT !.loaded = TRUE] /\ Finish

\* opendoc2(), the end: the record is bound to the screen, unless
\* form_postread or form_postdisplay refuses it.
ShowDoc(f, h) ==
  \/ form' = [Clean(f) EXCEPT !.loaded = TRUE, !.shown = f.key] /\ Finish
  \/ UnlockDoc(Clean(f), [h EXCEPT !.mode = "ABANDON", !.clear = TRUE])

-----------------------------------------------------------------------------
(* A handler goes on with the reply to its request.                        *)

\* opendoc2(), after gro.read(): the lock is kept, and the relocker started,
\* before it is seen whether the record can be shown.
GotRecord(r, f, h) ==
  LET g == [f EXCEPT !.locked = r.result = "ok", !.relocker = r.result = "ok",
              !.session = r.grant, !.base = r.version,
              !.isnew = r.version = 0]
  IN IF r.result = "failed" THEN form' = g /\ Note
     ELSE IF r.version = 0 /\ (UpdateOnly \/ ~g.locked)
     THEN form' = [g EXCEPT !.isnew = f.isnew] /\ Note
     ELSE IF r.version # 0 /\ ~g.locked
     THEN form' = [g EXCEPT !.isnew = f.isnew] /\ Ask("view_only", h)
     ELSE ShowDoc(g, h)

\* writedoc(), from deletecacherecord() on.
Written(f, h) ==
  ClearOrUnlock(
    [f EXCEPT !.locked = ~Unlocks(h.mode), !.relocker = ~Unlocks(h.mode),
       !.isnew = FALSE, !.typing = FALSE, !.first = FALSE], h)

\* writedoc(), after gro.writex().  A write that fails leaves the relocker
\* stopped.  The answer may have a warning for the user, before the form notes
\* that the document is not locked any more.
GotWritten(r, f, h) ==
  LET g == [f EXCEPT !.base = r.version]
  IN IF r.result = "failed" THEN form' = f /\ Note
     ELSE Written(g, h) \/ (form' = g /\ Ask("written", h))

\* deletedoc(), after DELETE.
GotDeleted(r, f, h) ==
  IF r.result = "failed" THEN form' = [f EXCEPT !.relocker = TRUE] /\ Note
  ELSE form' = [f EXCEPT !.locked = FALSE] /\ Ask("deleted", h)

\* unlockdoc(), after UNLOCK.  At startup the page sends the UNLOCK of the
\* cookie, and does not look at the answer.
GotUnlocked(r, f, h) ==
  IF h.mode = "LOAD" THEN form' = f /\ Finish
  ELSE IF r.result = "failed" THEN form' = f /\ Ask("retry_unlock", h)
  ELSE Unlocked(f, h)

Got(r, f, h) ==
  CASE r.type = "READU"               -> GotRecord(r, f, h)
    [] r.type \in {"WRITE", "WRITEU"} -> GotWritten(r, f, h)
    [] r.type = "DELETE"              -> GotDeleted(r, f, h)
    [] r.type = "UNLOCK"              -> GotUnlocked(r, f, h)

Acknowledged(r) == r.type \in {"WRITE", "WRITEU", "DELETE"} /\ r.result = "ok"

Reply ==
  /\ ReplyIn
  /\ IF request.result = "login"
     THEN AskLogin /\ UNCHANGED <<form, past>>
     ELSE /\ Got(request, form, handler)
          /\ past' = [past EXCEPT
               !.settled = @ \/ Acknowledged(request),
               !.gaveUp = @ \/ <<handler.mode, request.result>> = <<"LOAD", "failed">>]
  /\ OrphanKept
  /\ UNCHANGED <<relock, faults, page, serverVars>>

\* "System failure. Do you want to retry?": the browser's own confirm().
\* Giving up is a failure to the caller, whatever the server has done.
RetryOrGiveUp(strayed) ==
  \/ /\ SendAgain
     /\ past' = [past EXCEPT !.strayed = @ \/ strayed]
     /\ UNCHANGED form
  \/ /\ Got([request EXCEPT !.result = "failed", !.grant = 0, !.version = 0],
             form, handler)
     /\ past' = [past EXCEPT !.gaveUp = TRUE, !.strayed = @ \/ strayed]

ReplyFails ==
  /\ ReplyLost
  /\ RetryOrGiveUp(FALSE)
  /\ orphan' = FALSE
  /\ UNCHANGED <<relock, page, serverVars>>

-----------------------------------------------------------------------------
(* A handler goes on with an answer: of the user, or Ok.                   *)

AnswerSave(v, f, h) ==
  CASE v = Cancel -> form' = f /\ Finish
    [] v = Yes    -> \/ h.mode = "CLOSE" /\ f.typing /\ form' = f /\ Finish
                     \/ WriteDoc(Validated(f), h)
    [] v = No     -> ClearOrUnlock(f, [h EXCEPT !.clear = TRUE])
    [] OTHER      -> ClearOrUnlock(f, h)

AnswerRetryUnlock(v, f, h) ==
  IF v = Yes THEN form' = f /\ Send("UNLOCK", f.key, f.session, NoKey, h)
             ELSE Unlocked(f, h)

AnswerDelete(v, f, h) ==
  IF v = Yes
  THEN form' = [f EXCEPT !.relocker = FALSE]
       /\ Send("DELETE", f.key, f.session, NoKey, h)
  ELSE form' = f /\ Note

\* exodusdblink_login(): log in again and send the request once more, or go
\* to the login page, and leave the lock to expire.
AnswerLogin(v, f, h) ==
  IF v = Yes THEN form' = f /\ SendAgain
  ELSE form' = [Clean(f) EXCEPT !.locked = FALSE, !.key = NoKey] /\ Finish

Answer(v) ==
  CASE handler.at = "note"            -> form' = form /\ Finish
    [] handler.at = "deleted"         ->
         UnlockDoc(form, [handler EXCEPT !.clear = TRUE])
    [] handler.at = "written"         -> Written(form, handler)
    [] handler.at = "save_or_discard" -> AnswerSave(v, form, handler)
    [] handler.at = "view_only"       ->
         IF v = Yes THEN ShowDoc([form EXCEPT !.isnew = FALSE], handler)
                    ELSE form' = form /\ Finish
    [] handler.at = "sure_to_delete"  -> AnswerDelete(v, form, handler)
    [] handler.at = "retry_unlock"    -> AnswerRetryUnlock(v, form, handler)
    [] handler.at = "resume_login"    -> AnswerLogin(v, form, handler)

\* The buttons that each question has.
Buttons(question) ==
  CASE question \in {"note", "deleted", "written"} -> {Yes}
    [] question = "save_or_discard" -> {Yes, No, Cancel}
    [] question = "view_only"       -> {Yes, Cancel}
    [] OTHER                        -> {Yes, No}

\* exodus_confirm_function1() to 3()
UserAnswers ==
  /\ handler.at \in Question
  /\ \E v \in Buttons(handler.at) :
       /\ Answer(v)
       /\ past' = [past EXCEPT
            !.settled = @ \/ <<handler.at, v>> = <<"save_or_discard", No>>
                          \/ <<handler.at, v>> = <<"resume_login", No>>,
            !.gaveUp = @ \/ <<handler.at, v>> = <<"retry_unlock", No>>
                         \/ <<handler.at, v>> = <<"resume_login", No>>]
       /\ page' = [page EXCEPT !.open = @ /\ <<handler.at, v>> # <<"resume_login", No>>]
  /\ OrphanKept
  /\ UNCHANGED <<relock, faults, serverVars>>

\* exodus_resume('ok') for a reply that is not the handler's.  With nothing
\* to resume it has no effect.  A handler that waits for a reply of its own
\* finds none, and takes it for a failure; that reply comes later.
StrayToNobody ==
  /\ ~Blocked
  /\ UNCHANGED <<handler, request, form, past, page, serverVars>>
  /\ StrayReply

StrayToRequest ==
  /\ handler.at = "reply"
  /\ relock.status = "served" /\ Fault /\ relock' = NoRelock
  /\ RetryOrGiveUp(TRUE)
  /\ orphan' = (handler'.at # "reply")
  /\ UNCHANGED <<page, serverVars>>

StrayToQuestion ==
  /\ handler.at \in Question
  /\ Answer(Ok) /\ StrayReply
  /\ past' = [past EXCEPT !.strayed = TRUE]
  /\ page' = [page EXCEPT !.open = @ /\ handler.at # "resume_login"]
  /\ UNCHANGED <<serverVars>>

-----------------------------------------------------------------------------
(* Events.                                                                 *)

Start(mode, next) == [Done EXCEPT !.mode = mode, !.next = next]

Event == Idle /\ UNCHANGED <<relock, faults, page, serverVars>>

\* form_oninput(): the user types into a field that is not a key.
Type ==
  /\ Event /\ form.locked
  /\ form' = [form EXCEPT !.typing = TRUE, !.dirty = TRUE,
                 !.first = @ \/ ~form.dirty]
  /\ past' = [past EXCEPT !.settled = FALSE]
  /\ UNCHANGED <<handler, request>>
  /\ OrphanKept

\* Esc in document_onkeydown2(): gives back gpreviousvalue.
Undo ==
  /\ Event /\ form.typing
  /\ form' = [form EXCEPT !.typing = FALSE, !.first = FALSE,
                 !.dirty = @ /\ ~form.first]
  /\ past' = [past EXCEPT !.settled = @ \/ form.first]
  /\ UNCHANGED <<handler, request>>
  /\ OrphanKept

\* document_onfocus(): the user leaves the field, and it is valid.
LeaveField ==
  /\ Event /\ form.typing
  /\ form' = Validated(form)
  /\ UNCHANGED <<handler, request, past>>
  /\ OrphanKept

\* opendoc_body(): the record asked for may be open already.
OpenDoc(k) ==
  IF k = form.key /\ form.locked THEN UNCHANGED form /\ Finish
                                 ELSE SaveAndOrClear(form, Start("OPEN", k))

\* document_onfocus(): a key was entered, that is not that of the document.
EnterKey(k) ==
  /\ Event /\ ~form.typing
  /\ form.loaded => k # form.key
  /\ OpenDoc(k)
  /\ UNCHANGED past
  /\ OrphanKept

\* editreleaserecord_onclick()
EditRelease ==
  /\ Event /\ form.key # NoKey
  /\ IF form.locked THEN SaveAndOrClear(form, Start("RELEASE", NoKey))
                    ELSE OpenDoc(form.key)
  /\ UNCHANGED past
  /\ OrphanKept

\* saverecord_onclick(), savedoc_body(): nothing may be wrong with the
\* current field, and something must have changed.
SaveRecord ==
  /\ Event
  /\ \/ form.typing /\ UNCHANGED form /\ Finish
     \/ LET g == Validated(form)
        IN IF g.dirty /\ g.locked THEN SaveAndOrClear(g, Start("SAVE", NoKey))
                                  ELSE form' = g /\ Note
  /\ UNCHANGED past
  /\ OrphanKept

\* closerecord_onclick() CLOSE, F8 CLEAR, newrecord_onclick() NEW and
\* printsendrecord_onclick() PRINT.
LeaveRecord(mode) ==
  /\ Event
  /\ mode = "NEW" => form.key # NoKey
  /\ mode = "PRINT" => form.dirty
  /\ SaveAndOrClear(form, Start(mode, NoKey))
  /\ UNCHANGED past
  /\ OrphanKept

\* deletedoc(), up to its question.
DeleteRecord ==
  /\ Event
  /\ UNCHANGED <<form, past>>
  /\ IF form.locked /\ ~form.isnew
     THEN Ask("sure_to_delete", Start("DELETE", NoKey)) ELSE Note
  /\ OrphanKept

\* relockdoc(), from the interval: the turn is lost while a handler waits.
RelockDoc ==
  IF form.relocker /\ Idle /\ relock.status = "none"
  THEN SendRelock(form.key, form.session)
  ELSE UNCHANGED clientVars

\* A lease that has not expired.
Ages(k) == lease[k].session > 0 /\ lease[k].age <= LeaseTurns

\* A turn of the relocker: the leases of the form are older.
Turn ==
  /\ \E k \in Key : Ages(k)
  /\ RelockDoc
  /\ lease' = [k \in Key |->
                 IF Ages(k) THEN [lease[k] EXCEPT !.age = @ + 1] ELSE lease[k]]
  /\ UNCHANGED <<form, past, page, disk, lastSession, lastVersion>>

\* window_onbeforeunload2_sync() may warn, window_onunload_sync() notes the
\* UNLOCK in a cookie, and sends it: it may not get through.
ClosePage ==
  /\ page.open
  /\ handler' = Done /\ request' = NoRequest /\ relock' = NoRelock
  /\ orphan' = FALSE
  /\ form' = Blank
  /\ past' = [past EXCEPT !.gaveUp = @ \/ handler.at # "done" \/ orphan,
                         !.settled = @ \/ handler.at = "reply"
                                       \/ (form.locked /\ form.dirty)]
  /\ page' = [open |-> FALSE,
              key |-> IF form.locked THEN form.key ELSE page.key,
              session |-> IF form.locked THEN form.session ELSE page.session]
  /\ \/ UNCHANGED lease
     \/ /\ form.locked /\ lease[form.key].session = form.session
        /\ lease' = [lease EXCEPT ![form.key] = NoLease]
  /\ UNCHANGED <<faults, disk, lastSession, lastVersion>>

\* clientfunctions_windowonload(): the cookie is taken, and its UNLOCK sent.
LoadPage ==
  /\ ~page.open
  /\ page' = [open |-> TRUE, key |-> NoKey, session |-> 0]
  /\ form' = Blank
  /\ IF page.key = NoKey THEN Finish
     ELSE Send("UNLOCK", page.key, page.session, NoKey, Start("LOAD", NoKey))
  /\ orphan' = FALSE /\ relock' = NoRelock
  /\ UNCHANGED <<faults, past, serverVars>>

-----------------------------------------------------------------------------
(* The server (RecordLeases has the statements of each request), and the   *)
(* other browsers.                                                         *)

Free(k) == lease[k] = NoLease \/ lease[k].age > LeaseTurns

Served(result, version, grant) ==
  request' = [request EXCEPT !.status = "served", !.result = result,
                !.version = version, !.grant = grant]

\* Not logged in, not authorised, the lease of somebody else, or rolled back.
ServeRefused ==
  /\ \/ Served("login", 0, 0)
     \/ Served("failed", 0, 0)
  /\ UNCHANGED serverVars

\* The record comes without a lease if another request has locked it, or if it
\* may not be updated: then the lease that was just taken is released again.
ServeRead(k) ==
  /\ request.type = "READU"
  /\ \/ /\ Free(k)
        /\ lastSession < MaxSessions
        /\ lastSession' = lastSession + 1
        /\ lease' = [lease EXCEPT ![k] = [session |-> lastSession', age |-> 0]]
        /\ Served("ok", disk[k].version, lastSession')
     \/ /\ \/ UNCHANGED lease
           \/ Free(k) /\ lease' = [lease EXCEPT ![k] = NoLease]
        /\ Served("locked", disk[k].version, 0)
        /\ UNCHANGED lastSession
  /\ UNCHANGED <<disk, lastVersion>>

\* Variant: an expired lease is as good as none, for its owner too.
HoldsFree(k) == lease[k].session = request.session \/ Free(k)

\* "make sure that the record is already leaselocked to the user"
Holds(k) == lease[k].session = request.session

\* Refused after the lease was renewed: the lock of another request is in the
\* way, DATE_TIME differs, or a prewrite or predelete says so.  An error does
\* not take back the renewal.
ServeRenewed(k) ==
  /\ request.type \in {"WRITE", "WRITEU", "DELETE"}
  /\ Holds(k)
  /\ lease' = [lease EXCEPT ![k].age = 0]
  /\ Served("failed", 0, 0)
  /\ UNCHANGED <<disk, lastSession, lastVersion>>

\* "even postwrite/postdelete can now set invalid": then the answer is an error,
\* and the record is written.
ServeWrite(k) ==
  /\ request.type \in {"WRITE", "WRITEU", "DELETE"}
  /\ Holds(k)
  /\ request.type = "DELETE" => disk[k].version # 0
  /\ lastVersion < MaxVersions
  /\ lastVersion' = lastVersion + 1
  /\ disk' = [disk EXCEPT ![k] =
       [version |-> IF request.type = "DELETE" THEN 0 ELSE lastVersion',
        own |-> TRUE]]
  /\ lease' = [lease EXCEPT ![k] =
                 IF request.type = "WRITE" THEN [@ EXCEPT !.age = 0] ELSE NoLease]
  /\ Served("ok", disk'[k].version, 0) \/ Served("failed", 0, 0)
  /\ UNCHANGED lastSession

ServeUnlock(k) ==
  /\ request.type = "UNLOCK"
  /\ Holds(k) \/ lease[k] = NoLease
  /\ lease' = [lease EXCEPT ![k] = NoLease]
  /\ Served("ok", 0, 0)
  /\ UNCHANGED <<disk, lastSession, lastVersion>>

Serve ==
  /\ request.status = "sent"
  /\ \/ ServeRefused
     \/ ServeRead(request.key) \/ ServeUnlock(request.key)
     \/ ServeRenewed(request.key) \/ ServeWrite(request.key)
  /\ UNCHANGED <<handler, orphan, relock, faults, form, past, page>>

\* It is refused when another request has locked the record.
ServeRelock ==
  /\ relock.status = "sent"
  /\ relock' = [NoRelock EXCEPT !.status = "served"]
  /\ \/ UNCHANGED lease
     \/ /\ lease[relock.key].session = relock.session
        /\ lease' = [lease EXCEPT ![relock.key].age = 0]
  /\ UNCHANGED <<handler, request, orphan, faults, form, past, page, disk,
                 lastSession, lastVersion>>

\* Another browser locks a record, writes it, or unlocks it.
OtherEdits(k) ==
  /\ \/ /\ Free(k)
        /\ lease' = [lease EXCEPT ![k] = [session |-> Other, age |-> 0]]
        /\ UNCHANGED <<disk, lastVersion>>
     \/ /\ lease[k].session = Other
        /\ lastVersion < MaxVersions /\ lastVersion' = lastVersion + 1
        /\ disk' = [disk EXCEPT ![k] = [version |-> lastVersion', own |-> FALSE]]
        /\ lease' = [lease EXCEPT ![k] = NoLease]
     \/ /\ lease[k].session = Other
        /\ lease' = [lease EXCEPT ![k] = NoLease]
        /\ UNCHANGED <<disk, lastVersion>>
  /\ UNCHANGED <<clientVars, form, past, page, lastSession>>

-----------------------------------------------------------------------------
UserEvent ==
  \/ Type \/ Undo \/ LeaveField \/ EditRelease \/ SaveRecord \/ DeleteRecord
  \/ \E k \in Key : EnterKey(k)
  \/ \E mode \in {"CLOSE", "CLEAR", "NEW", "PRINT"} : LeaveRecord(mode)
  \/ ClosePage \/ LoadPage

Stray == StrayToNobody \/ StrayToRequest \/ StrayToQuestion

Next ==
  \/ UserEvent \/ UserAnswers \/ Reply \/ ReplyFails \/ Stray \/ Turn
  \/ Serve \/ ServeRelock
  \/ \E k \in Key : OtherEdits(k)

Spec == Init /\ [][Next]_vars

-----------------------------------------------------------------------------
(* Properties.                                                             *)

\* A handler drops unsaved changes only because they are saved, or because
\* the user said so (saveandorcleardoc(): "opportunity to save or cancel");
\* unless a stray reply has taken the place of an answer.
EditsKept == [][form.dirty /\ ~form'.dirty => past'.settled \/ past'.strayed]_vars

\* The comment at starteventhandler(), taken at its word: a handler is only
\* resumed by what it waits for, so that no changes are lost without a word.
EditsAlwaysKept == [][form.dirty /\ ~form'.dirty => past'.settled]_vars

\* What is written under a key are the fields of the record of that key, in
\* forms that may create records.
WritesItsOwn ==
  request.type \in {"WRITE", "WRITEU"} /\ ~UpdateOnly => request.data = request.key

\* opendoc2(): "cannot create new record because gupdateonlymode is true".
UpdateOnlyCreatesNothing ==
  [][UpdateOnly /\ lastVersion' # lastVersion =>
       \A k \in Key : disk'[k].own /\ disk'[k] # disk[k] => disk[k].version # 0]_vars

\* A form overwrites the version it has shown, or one of its own whose
\* acknowledgement it has missed, never another's.
NoLostUpdate ==
  [][\A k \in Key :
       disk'[k] # disk[k] /\ disk'[k].own =>
         disk[k].own \/ disk[k].version = form.base]_vars

\* writedoc(): "restart the relocker if failed to save".
LockedIsRelocked == ~Blocked /\ form.locked => form.relocker

\* The form knows every lease it was given, until it has given it back: it
\* holds it, is about to get it or to release it, or has it in the cookie.
\* Exceptions are a reply that was lost, what the user gave up, and stray
\* replies.  And it never keeps a lease alive that is not of its document.
Known(k) ==
  \/ form.locked /\ form.key = k /\ form.session = lease[k].session
  \/ handler.at \in {"reply", "resume_login"} /\ request.key = k
  \/ page.key = k /\ page.session = lease[k].session

NoForgottenLease ==
  /\ form.relocker => form.locked
  /\ \/ faults > 0 \/ past.gaveUp \/ past.strayed
     \/ \A k \in Key : lease[k].session > 0 => Known(k)
=============================================================================
