---------------------------- MODULE RequestFiles ----------------------------
(***************************************************************************)
(* How a web request reaches a listener and its answer comes back: through *)
(* files that are named alike and polled.                                  *)
(*                                                                         *)
(* The gateway (service/www/3/exodus/scripts/server.js) writes the data to *)
(* ~N.2 and the request to ~N.1$, renames that to ~N.1, waits until it is  *)
(* gone, starts the service if it stays, and waits for ~N.3, the response; *)
(* then it reads ~N.2, now the data that came back, and deletes the files. *)
(*                                                                         *)
(* A listener (service/src/exo/waiting.cpp, service/src/srv/listen.cpp)    *)
(* claims a request by renaming ~N.1 to a name of its own, reads and       *)
(* deletes the data, processes the request in one transaction, and writes  *)
(* ~N.2 and after it ~N.3.                                                 *)
(*                                                                         *)
(* Waits that time out are choices.  Listeners may die between two steps,  *)
(* or fail: then the program that runs them (service/src/srv/net.cpp)      *)
(* writes an error to the response file that was named last, whatever has  *)
(* become of the request, and runs the listener again.                     *)
(***************************************************************************)
EXTENDS Naturals

CONSTANTS
  Gateway, Listener,
  Name,            \* the numbers N that calls may choose
  NoName,          \* no name
  MaxCalls,        \* bound: calls that are sent
  MaxFaults        \* bound: crashes, failures, file errors, "no request"s

ASSUME RequestAssumption ==
  /\ NoName \notin Name
  /\ MaxCalls \in Nat /\ MaxFaults \in Nat

VARIABLES
  file,            \* file[n][x]: what is in ~n.x, by the number of its call
  gateway,         \* the calls of exodusdblink_send_byfile()
  listener,        \* the listeners, each with its file neosNNNN.0
  done,            \* done[c]: how often work of call c was committed
  lastCall, faults

vars == <<file, gateway, listener, done, lastCall, faults>>

Extension == {"1$", "1", "2", "3", "4"}

\* A file holds a request, a response or data, of some call.  "empty": a
\* response that is created and not written yet.
NoFile == [call |-> 0, text |-> "none"]
Request(c, sends) == [call |-> c, text |-> IF sends THEN "request+data" ELSE "request"]
Content ==
  [call : 0..MaxCalls,
   text : {"none", "request", "request+data", "data", "reply", "ok", "error",
           "no_request", "empty"}]

NoClaim == NoFile
Free == [pc |-> "free", call |-> 0, name |-> NoName, data |-> FALSE,
         sends |-> FALSE, tries |-> 0, answer |-> "none"]

\* last: where NET answers for the listener (PRIORITYINT(100)), and whose call
\* that was.  open: the calls with work in the listener's transaction.
NoLast == [call |-> 0, name |-> NoName]
Waiting == [pc |-> "wait", claim |-> NoClaim, name |-> NoName, data |-> NoFile,
            last |-> NoLast, open |-> {}]

RequestTypeOK ==
  /\ file \in [Name -> [Extension -> Content]]
  /\ gateway \in [Gateway ->
       [pc : {"free", "name", "data", "request", "rename", "receipt", "start",
              "response", "clean"},
        call : 0..MaxCalls, name : Name \cup {NoName}, data : BOOLEAN,
        sends : BOOLEAN, tries : 0..2,
        answer : {"none", "ok", "error", "no_request"}]]
  /\ listener \in [Listener ->
       [pc : {"wait", "claimed", "data", "process", "reply", "response", "fill"},
        claim : Content, name : Name \cup {NoName}, data : Content,
        last : [call : 0..MaxCalls, name : Name \cup {NoName}],
        open : SUBSET (1..MaxCalls)]]
  /\ done \in [1..MaxCalls -> Nat]
  /\ lastCall \in 0..MaxCalls /\ faults \in 0..MaxFaults

Init ==
  /\ file = [n \in Name |-> [x \in Extension |-> NoFile]]
  /\ gateway = [g \in Gateway |-> Free]
  /\ listener = [l \in Listener |-> Waiting]
  /\ done = [c \in 1..MaxCalls |-> 0]
  /\ lastCall = 0 /\ faults = 0

Exists(n, x) == file[n][x] # NoFile
Put(n, x, content) == file' = [file EXCEPT ![n][x] = content]
Delete(n, extensions) ==
  file' = [file EXCEPT ![n] =
             [x \in Extension |-> IF x \in extensions THEN NoFile ELSE @[x]]]
Fault == faults < MaxFaults /\ faults' = faults + 1

-----------------------------------------------------------------------------
(* The gateway.                                                            *)

Goes(g, to) == gateway' = [gateway EXCEPT ![g].pc = to]
Returns(g) == gateway' = [gateway EXCEPT ![g] = Free]
Gateways == <<listener, done>>

\* The checks at the start return at once: only a call that passes them,
\* with data or without, is of interest.
Call(g) ==
  /\ gateway[g].pc = "free"
  /\ lastCall < MaxCalls /\ lastCall' = lastCall + 1
  /\ \E sends \in BOOLEAN :
       gateway' = [gateway EXCEPT ![g] =
         [Free EXCEPT !.pc = "name", !.call = lastCall', !.data = sends,
            !.sends = sends]]
  /\ UNCHANGED <<file, Gateways, faults>>

\* FileExists(linkfilename + '.*') is asked for a file with an asterisk in its
\* name, and there is none: any number that is drawn is taken.
ChooseName(g) ==
  /\ gateway[g].pc = "name"
  /\ \E n \in Name :
       gateway' = [gateway EXCEPT ![g].name = n,
         ![g].pc = IF gateway[g].data THEN "data" ELSE "request"]
  /\ UNCHANGED <<file, Gateways, lastCall, faults>>

\* A file that cannot be created ends the call where it is: nothing is
\* cleaned up.
WriteFile(g, x, content, to) ==
  \/ /\ Put(gateway[g].name, x, content) /\ Goes(g, to)
     /\ UNCHANGED <<Gateways, lastCall, faults>>
  \/ /\ Fault /\ Returns(g)
     /\ UNCHANGED <<file, Gateways, lastCall>>

WriteData(g) ==
  /\ gateway[g].pc = "data"
  /\ WriteFile(g, "2", [call |-> gateway[g].call, text |-> "data"], "request")

WriteRequest(g) ==
  /\ gateway[g].pc = "request"
  /\ WriteFile(g, "1$", Request(gateway[g].call, gateway[g].sends), "rename")

\* Move() fails when there is such a file, GetFile() when there is none.
RenameRequest(g) ==
  LET n == gateway[g].name IN
  /\ gateway[g].pc = "rename"
  /\ IF Exists(n, "1") \/ ~Exists(n, "1$")
     THEN Returns(g) /\ UNCHANGED file
     ELSE /\ Goes(g, "receipt")
          /\ file' = [file EXCEPT ![n]["1"] = file[n]["1$"], ![n]["1$"] = NoFile]
  /\ UNCHANGED <<Gateways, lastCall, faults>>

\* waiting2.exe, for ten seconds.
AwaitReceipt(g) ==
  /\ gateway[g].pc = "receipt"
  /\ \/ ~Exists(gateway[g].name, "1") /\ Goes(g, "response")
     \/ Exists(gateway[g].name, "1") /\ Goes(g, "start")
  /\ UNCHANGED <<file, Gateways, lastCall, faults>>

\* exodusdblink_startdb(): a start that is not allowed is as good as one
\* that succeeds.  If it fails the request is taken back.  The wait ends with
\* the starter's answer only: what is compared with the time limit is always
\* the time of the start.
Start(g) ==
  /\ gateway[g].pc = "start"
  /\ \/ Goes(g, "response") /\ UNCHANGED file
     \/ Delete(gateway[g].name, {"1"}) /\ Returns(g)
  /\ UNCHANGED <<Gateways, lastCall, faults>>

\* "exit if no response within x seconds".  The request and what may come of it
\* are left where they are.
GiveUp(g) ==
  /\ gateway[g].pc = "response"
  /\ Returns(g)
  /\ UNCHANGED <<file, Gateways, lastCall, faults>>

Resendable(text) == text = "no_request"

\* Variant: the request is sent again under the name it had.
ReadResponseSameName(g) ==
  LET n == gateway[g].name
      text == file[n]["3"].text
      again == Resendable(text) /\ gateway[g].tries < 2
  IN
  /\ gateway[g].pc = "response"
  /\ text \in {"ok", "error", "no_request"}
  /\ gateway' = [gateway EXCEPT
       ![g].pc = IF again THEN "request" ELSE "clean",
       ![g].tries = IF again THEN @ + 1 ELSE @,
       ![g].data = IF again THEN FALSE ELSE @,
       ![g].answer = text]
  /\ UNCHANGED <<file, Gateways, lastCall, faults>>

\* An empty ~N.3 cannot be read, and is tried again.  this.data is replaced by
\* what comes back, which is nothing with "no request", before the request is
\* sent again under another name.
ReadResponse(g) ==
  LET n == gateway[g].name
      text == file[n]["3"].text
      again == Resendable(text) /\ gateway[g].tries < 2
  IN
  /\ gateway[g].pc = "response"
  /\ text \in {"ok", "error", "no_request"}
  /\ gateway' = [gateway EXCEPT
       ![g].pc = IF again THEN "name" ELSE "clean",
       ![g].name = IF again THEN NoName ELSE n,
       ![g].tries = IF again THEN @ + 1 ELSE @,
       ![g].data = IF again THEN FALSE ELSE @,
       ![g].answer = text]
  /\ UNCHANGED <<file, Gateways, lastCall, faults>>

\* Files that this user may not delete are left for the listener: ~N.4.
CleanUp(g) ==
  LET n == gateway[g].name IN
  /\ gateway[g].pc = "clean"
  /\ \/ Delete(n, {"1", "2", "3"}) /\ UNCHANGED faults
     \/ /\ Fault /\ Exists(n, "3")
        /\ file' = [file EXCEPT ![n]["1"] = NoFile,
                                ![n]["4"] = [call |-> gateway[g].call, text |-> "ok"]]
  /\ Returns(g)
  /\ UNCHANGED <<Gateways, lastCall>>

-----------------------------------------------------------------------------
(* The listener.                                                           *)

Listeners == <<gateway, lastCall>>
Moves(l, to) == listener' = [listener EXCEPT ![l].pc = to]

\* The next turn of the loop: what NET would answer with stays.
Again(l) ==
  listener' = [listener EXCEPT ![l] =
    [Waiting EXCEPT !.last = listener[l].last, !.open = listener[l].open]]

\* Variant: the request is copied, and deleted when it was read.
ClaimCopy(l) ==
  /\ listener[l].pc = "wait"
  /\ \E n \in Name :
       /\ Exists(n, "1")
       /\ listener' = [listener EXCEPT ![l].claim = file[n]["1"],
                         ![l].name = n, ![l].pc = "claimed"]
  /\ UNCHANGED <<file, Listeners, done, faults>>

\* wait(): what is left of an earlier claim is deleted.  waiting.cpp: the
\* first request there is is renamed to neosNNNN.0.
Claim(l) ==
  /\ listener[l].pc = "wait"
  /\ \E n \in Name :
       /\ Exists(n, "1")
       /\ Delete(n, {"1"})
       /\ listener' = [listener EXCEPT ![l].claim = file[n]["1"],
                         ![l].name = n, ![l].pc = "claimed"]
  /\ UNCHANGED <<Listeners, done, faults>>

\* got_link(): without the lock on the name the claim is dropped.  Nothing but
\* the claim keeps others from the request: a lock of an earlier listener may be
\* there still, since the end of a transaction makes the session forget the locks
\* it has (RecordLocks), and whether it is is a choice.
GotLink(l) ==
  /\ listener[l].pc = "claimed"
  /\ Moves(l, "data") \/ Again(l)
  /\ UNCHANGED <<file, Listeners, done, faults>>

\* request_init(): the response file is named, the data is read and its file
\* deleted.
ReadData(l) ==
  LET n == listener[l].name IN
  /\ listener[l].pc = "data"
  /\ listener' = [listener EXCEPT ![l].data = file[n]["2"], ![l].pc = "process",
       ![l].last = [call |-> listener[l].claim.call, name |-> n]]
  /\ Delete(n, {"2"})
  /\ UNCHANGED <<Listeners, done, faults>>

\* What the response will say is kept in data.text.
Result(l, text, open) ==
  listener' = [listener EXCEPT ![l].data = [@ EXCEPT !.text = text],
                               ![l].pc = "reply", ![l].open = open]

\* committrans() of what the request has done, and with it of what earlier ones
\* have left in the transaction.
Commits(l, own) ==
  done' = [c \in DOMAIN done |->
             done[c] + IF c \in own \cup listener[l].open THEN 1 ELSE 0]

\* Variant: a commit that fails is not noticed.
ProcessUnchecked(l) ==
  LET c == listener[l].claim.call IN
  /\ listener[l].pc = "process"
  /\ \/ \E text \in {"ok", "error"} : Result(l, text, {}) /\ Commits(l, {c})
     \/ \E text \in {"ok", "error"} : Result(l, text, {}) /\ UNCHANGED done
  /\ UNCHANGED <<file, Listeners, faults>>

\* process(): one transaction.  It is committed after an error, too, whether
\* the request was refused before it changed anything or had an error after its
\* changes; rolled back after a VarError and when the commit fails.  "No
\* request" if the file was empty.  A request that request_init() refuses
\* is answered and not processed.
Process(l) ==
  LET c == listener[l].claim.call IN
  /\ listener[l].pc = "process"
  /\ \/ \E text \in {"ok", "error"} :
          Result(l, text, {}) /\ Commits(l, {c}) /\ UNCHANGED faults
     \/ Result(l, "error", {}) /\ Commits(l, {}) /\ UNCHANGED faults
     \/ Result(l, "error", {}) /\ UNCHANGED <<done, faults>>
     \/ Result(l, "no_request", {}) /\ Commits(l, {}) /\ Fault
     \/ Result(l, "error", listener[l].open) /\ UNCHANGED <<done, faults>>
  /\ UNCHANGED <<file, Listeners>>

Reply(l, text) == [call |-> listener[l].claim.call, text |-> text]

\* request_exit(): ~N.2 is written.
WriteReply(l) ==
  /\ listener[l].pc = "reply"
  /\ Put(listener[l].name, "2", Reply(l, "reply"))
  /\ Moves(l, "response")
  /\ UNCHANGED <<Listeners, done, faults>>

\* oswrite(response_, linkfilename3): the file is there before its text.
CreateResponse(l) ==
  /\ listener[l].pc = "response"
  /\ Put(listener[l].name, "3", Reply(l, "empty"))
  /\ Moves(l, "fill")
  /\ UNCHANGED <<Listeners, done, faults>>

FillResponse(l) ==
  /\ listener[l].pc = "fill"
  /\ Put(listener[l].name, "3", Reply(l, listener[l].data.text))
  /\ Again(l)
  /\ UNCHANGED <<Listeners, done, faults>>

\* A VarError that is not process()'s, or an abort() anywhere: NET catches it,
\* unlocks, and writes an error to the response file it knows of, with ~N.2 as
\* it is.  That is the last request's until request_init() has named the next.
\* An abort() inside a transaction leaves it open with its work.  NET runs the
\* listener again in the same session, or stops.
AnswersAt(l) ==
  {listener[l].last} \cup
    IF listener[l].pc = "data"
    THEN {[call |-> listener[l].claim.call, name |-> listener[l].name]} ELSE {}

Fails(l) ==
  /\ listener[l] # Waiting /\ Fault
  /\ \E at \in AnswersAt(l) :
       IF at.name = NoName
       THEN UNCHANGED file
       ELSE Put(at.name, "3", [call |-> at.call, text |-> "error"])
  /\ \E left \in {{}, listener[l].open,
                  listener[l].open \cup
                    IF listener[l].pc = "process"
                    THEN {listener[l].claim.call} ELSE {}} :
       listener' = [listener EXCEPT ![l] = [Waiting EXCEPT !.open = left]]
  /\ UNCHANGED <<Listeners, done>>

\* The process ends: its locks and its transaction go, its claim stays until
\* the next of the name waits.
Crash(l) ==
  /\ listener[l] # Waiting /\ Fault
  /\ listener' = [listener EXCEPT ![l] = Waiting]
  /\ UNCHANGED <<file, Listeners, done>>

\* DELETEOLDFILES2: files that a ~N.4 asks for.  DELETEOLDFILES: files of an
\* hour ago, when no call of the name is under way any more.
DeleteOldFiles ==
  /\ \E n \in Name :
       \/ Exists(n, "4") /\ Delete(n, {"4", "2", "3"})
       \/ /\ \E x \in Extension : Exists(n, x)
          /\ ~\E g \in Gateway : gateway[g].name = n
          /\ ~\E l \in Listener : listener[l].name = n
          /\ Delete(n, Extension)
  /\ UNCHANGED <<gateway, listener, done, lastCall, faults>>

-----------------------------------------------------------------------------
Steps(g) ==
  \/ ChooseName(g) \/ WriteData(g) \/ WriteRequest(g) \/ RenameRequest(g)
  \/ AwaitReceipt(g) \/ GiveUp(g) \/ ReadResponse(g) \/ CleanUp(g)

Serves(l) ==
  \/ Claim(l) \/ GotLink(l) \/ ReadData(l) \/ Process(l) \/ WriteReply(l)
  \/ CreateResponse(l) \/ FillResponse(l)

Next ==
  \/ \E g \in Gateway : Call(g) \/ Steps(g) \/ Start(g)
  \/ \E l \in Listener : Serves(l) \/ Fails(l) \/ Crash(l)
  \/ DeleteOldFiles

Spec == Init /\ [][Next]_vars

\* An assumption about the random numbers, which nothing in the code sees to: of
\* nine million, none is drawn while something still goes by it.
InUse(n) ==
  \/ \E x \in Extension : Exists(n, x)
  \/ \E g \in Gateway : gateway[g].name = n
  \/ \E l \in Listener : listener[l].name = n \/ listener[l].last.name = n

DrawsDiffer ==
  \A g \in Gateway :
    gateway[g].pc = "name" /\ gateway'[g].pc # "name" =>
      ~InUse(gateway'[g].name)

DifferNext == Next /\ DrawsDiffer

DifferSpec == Init /\ [][DifferNext]_vars

\* A call goes on, except where it waits for the starter, which may not answer.
\* The listeners serve.
FairSpec ==
  /\ DifferSpec
  /\ \A g \in Gateway : WF_vars(Steps(g) /\ DrawsDiffer)
  /\ \A l \in Listener : WF_vars(Serves(l))
  /\ WF_vars(DeleteOldFiles)
-----------------------------------------------------------------------------
(* Properties.                                                             *)

\* What a gateway is about to read is the answer to its own call.  The data that
\* comes with it is the reply: ~N.2 goes back and forth under one name, and is
\* the request's until the listener has read it and the reply's when ~N.3 is
\* there.  Only with an error, which NET may write at any time, the data may be
\* the request's own, or missing.  And a request is processed with the data it
\* was sent with or with none, never with a reply or another call's.
OwnAnswer ==
  /\ \A g \in Gateway :
       LET c == gateway[g].call
           files == file[gateway[g].name]
       IN
       gateway[g].pc = "response" /\ files["3"] # NoFile =>
         /\ files["3"].call = c
         /\ \/ files["2"] = [call |-> c, text |-> "reply"]
            \/ /\ files["3"].text = "error"
               /\ files["2"] \in {NoFile, [call |-> c, text |-> "data"]}
  /\ \A l \in Listener :
       listener[l].pc = "process" =>
         \/ listener[l].data = NoFile
         \/ listener[l].data = [call |-> listener[l].claim.call, text |-> "data"]

\* Whatever dies, fails or times out, the work of no request is committed twice.
AtMostOnce == \A c \in DOMAIN done : done[c] <= 1

\* "OK" is told only of what was committed, and "no request", after which the
\* request may be sent again, only of what was not.  An error says neither.
AnswerIsTrue ==
  \A g \in Gateway :
    gateway[g].pc = "clean" =>
      /\ gateway[g].answer = "ok" => done[gateway[g].call] = 1
      /\ gateway[g].answer = "no_request" => done[gateway[g].call] = 0

(* The following do not hold.                                              *)

\* "waits up to 60 seconds to get a positive or negative response": every call
\* returns.
CallsReturn ==
  \A g \in Gateway : gateway[g].pc # "free" ~> gateway[g].pc = "free"

\* "COMMIT (or ROLLBACK if any error)": what was answered with an error was not
\* done.
ErrorIsNotDone ==
  \A g \in Gateway :
    gateway[g].pc = "clean" /\ gateway[g].answer = "error" =>
      done[gateway[g].call] = 0

\* "if receive 'ERROR: NO REQUEST' then send the request again": what is
\* processed in the end is the same request, data included.
ResendCarriesData ==
  \A l \in Listener :
    listener[l].pc = "process" /\ listener[l].claim.text = "request+data" =>
      listener[l].data.text = "data"

\* A call that has returned a failure is not processed after that.
GivenUpIsNotDone ==
  [][\A c \in DOMAIN done :
       done'[c] > done[c] => \E g \in Gateway : gateway[g].call = c]_vars
=============================================================================
