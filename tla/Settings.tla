----------------------------- MODULE Settings -----------------------------
(* The way of a setting from the client to the filters.  The interface takes   *)
(* it and settles what depends on it; what it says is piled up, and goes with  *)
(* the next frame together with what the settings of that frame say.  Client   *)
(* and component are two threads that share the lock of the interface.         *)
EXTENDS Integers, Sequences, FiniteSets, SequencesExt, TLC

CONSTANTS
  EncFocus,    \* the sets of settings of an encoder of which one set changes
  DecFocus,    \* those of a decoder
  MaxChanges,  \* settings that client and frames change
  MaxFrames,   \* frames that are queued
  MaxFlushes   \* flushes

VARIABLES
  side,     \* the interface of an encoder ("enc") or a decoder ("dec")
  focus,    \* the settings that change
  intf,     \* the settings of the interface
  running,  \* the component has been started
  piled,    \* parameters that wait for the next frame
  client,   \* the settings that the client has set and not converted yet
  work,     \* the frame that is being queued
  queue,    \* the frames on their way to the filters
  told,     \* what the filters were told last
  actual,   \* the format of the frames is known (mActualFormat)
  needIdr,  \* the next frame restarts the stream (bRequiredIDR)
  due,      \* parameters that say something else since the start
  excused,  \* parameters of which the filters are not told
  count     \* changes, frames, flushes and requests of a sync frame

settingsVars == <<side, focus, intf, running, piled, client, work, queue, told, actual, needIdr, due, excused, count>>

Enc == INSTANCE EncSettings
Dec == INSTANCE DecSettings

Idle == [phase |-> "none", update |-> <<>>, params |-> Enc!Unsaid, real |-> FALSE, first |-> FALSE,
         restart |-> FALSE, refused |-> FALSE]

-----------------------------------------------------------------------------
(* The table of the conversions.                                             *)

Table     == IF side = "enc" THEN Enc!Registered ELSE Dec!Registered
Says(i)   == IF side = "enc" THEN Enc!Says(i) ELSE Dec!Says(i)
Values    == IF side = "enc" THEN Enc!Values ELSE Dec!Values
SetupList == IF side = "enc" THEN Enc!SetupList ELSE Dec!SetupList
Late(s)   == IF side = "enc" THEN Enc!Late(s) ELSE Dec!Late(s)
Sticky    == IF side = "enc" THEN Enc!Sticky ELSE Dec!Sticky
Orders    == IF side = "enc" THEN Enc!Orders ELSE Dec!Orders

Settle(old, given) == IF side = "enc" THEN Enc!Settle(old, given) ELSE Dec!Settle(old, given)
BadValue(given)    == IF side = "enc" THEN Enc!BadValue(given) ELSE Dec!BadValue(given)
Reset(s, i)        == IF side = "enc" THEN Enc!Reset(s, i) ELSE Dec!Reset(s, i)

\* A setting is said again with those that it was registered to depend on: a
\* dependency on one that is not registered by then is lost.
Listed(s, table) == \E k \in DOMAIN table : table[k][1] = s
Dependents(s, table) ==
  {table[k][1] : k \in {n \in DOMAIN table : s \in table[n][2] /\ Listed(s, SubSeq(table, 1, n - 1))}}

\* Parameters added later replace earlier ones of the same kind.
cnvC2ParamToFilterParam(s, says, table) ==
  IF Listed(s, table) THEN FoldSet(LAMBDA d, said : says[d] @@ said, says[s], Dependents(s, table))
  ELSE Enc!Unsaid

\* What settings say one after the other, and the interface after that.
Converted(settings, i) ==
  LET says  == Says(i)
      table == Table
  IN  FoldLeft(LAMBDA said, s : cnvC2ParamToFilterParam(s, says, table) @@ said, Enc!Unsaid, settings)

\* Mutant: a request stays set after the filters were told.
AfterConversion_Kept(settings, i) == i
AfterConversion(settings, i) == FoldLeft(LAMBDA j, s : Reset(s, j), i, settings)

\* What the filters may be told of the settings, and of what they would be told
\* something else.
Allowed(i) ==
  LET says == Says(i)
  IN  UNION {{<<f, says[s][f]>> : f \in DOMAIN says[s]} : s \in DOMAIN says}
Kinds(said) == {p[1] : p \in said}

Changed(i, j) ==
  LET before == Allowed(i)
      now    == Allowed(j)
  IN  Kinds((now \ before) \union (before \ now))

-----------------------------------------------------------------------------
Init ==
  /\ \/ side = "enc" /\ focus \in EncFocus
        /\ intf \in {[Enc!Defaults EXCEPT !.encRgb = b] : b \in IF "actualFormat" \in focus THEN BOOLEAN ELSE {FALSE}}
     \/ side = "dec" /\ focus \in DecFocus /\ intf = Dec!Defaults
  /\ running = FALSE /\ actual = FALSE /\ needIdr = FALSE
  /\ piled = Enc!Unsaid /\ told = Enc!Unsaid
  /\ client = <<>> /\ work = Idle /\ queue = <<>>
  /\ due = {} /\ excused = {}
  /\ count = [changes |-> 0, frames |-> 0, flushes |-> 0, refusals |-> 0, syncs |-> 0]

\* The interface takes new values.  Nothing is said of those it refuses.
Take(given, settings, refused) ==
  LET now == Settle(intf, given)
      new == Changed(intf, now)
  IN  /\ intf' = now
      /\ due' = due \union new
      /\ excused' = excused \union
           (IF refused THEN new ELSE UNION {new \intersect Late(s) : s \in settings})

\* Before the first frame the filters are told what the defaults say.
Start ==
  /\ ~running
  /\ running' = TRUE /\ actual' = FALSE
  /\ LET said == Converted(SetupList, intf)
                 @@ (IF side = "enc" THEN Enc!cnvSubscribedParam(intf) ELSE Enc!Unsaid)
     IN  /\ piled' = said @@ piled
         /\ excused' = excused \ DOMAIN said
  /\ UNCHANGED <<side, focus, intf, client, work, queue, told, needIdr, due, count>>

\* What a client may give a setting.
Given == LET values == Values
         IN  UNION {{<<s, v>> : v \in values[s]} : s \in focus \intersect DOMAIN values}

\* A client changes a setting (config_vb) ...
ClientSet ==
  /\ client = <<>> /\ count.changes < MaxChanges
  /\ \E new \in Given :
       LET given   == [intf EXCEPT ![new[1]] = new[2]]
           refused == BadValue(given)
       IN  /\ Take(given, {new[1]}, refused)
           /\ client' = IF refused THEN <<>> ELSE <<new[1]>>
           /\ count' = [count EXCEPT !.changes = @ + 1, !.refusals = @ + (IF refused THEN 1 ELSE 0),
                                     !.syncs = @ + (IF new[1] = "syncFrame" THEN 1 ELSE 0)]
  /\ UNCHANGED <<side, focus, running, piled, work, queue, told, actual, needIdr>>

\* ... and the interface, locked again, piles up what it says.
ClientKeep ==
  /\ client # <<>>
  /\ LET said == Converted(client, intf)
     IN  /\ piled' = said @@ piled
         /\ excused' = excused \ DOMAIN said
  /\ intf' = AfterConversion(client, intf)
  /\ client' = <<>>
  /\ UNCHANGED <<side, focus, running, work, queue, told, actual, needIdr, due, count>>

-----------------------------------------------------------------------------
(* A frame is queued, in order, by one thread.                               *)

\* The settings that come with a frame: none, or one that the client gives.
Updates == {<<>>} \union IF count.changes < MaxChanges THEN Given ELSE {}

\* An encoder replaces an empty input by a buffer of its own; the next real one then
\* restarts the stream.  The first real input decides the format of all.
getExynosBuffer(real) ==
  \/ /\ real /\ ~actual
     /\ \E format \in IF "actualFormat" \in focus THEN Enc!BufferFormats ELSE {"NV21"} :
          Take([intf EXCEPT !.actualFormat = format], {"actualFormat"}, FALSE)
     /\ actual' = TRUE /\ needIdr' = FALSE
  \/ /\ real /\ actual
     /\ needIdr' = FALSE
     /\ UNCHANGED <<intf, due, excused, actual>>
  \/ /\ ~real
     /\ needIdr' = (needIdr \/ ~actual)
     /\ UNCHANGED <<intf, due, excused, actual>>

onQueue ==
  /\ running /\ work.phase = "none" /\ count.frames < MaxFrames
  /\ \E update \in Updates, real \in (IF "startIDR" \in focus THEN BOOLEAN ELSE {TRUE}) :
       /\ IF side = "enc" THEN getExynosBuffer(real) ELSE UNCHANGED <<intf, due, excused, actual, needIdr>>
       /\ work' = [Idle EXCEPT !.phase = "got", !.update = update, !.real = real,
                               !.first = side = "enc" /\ real /\ ~actual,
                               !.restart = side = "enc" /\ real /\ needIdr]
       /\ count' = [count EXCEPT !.frames = @ + 1, !.changes = @ + (IF update = <<>> THEN 0 ELSE 1),
                                 !.syncs = @ + (IF update # <<>> /\ update[1] = "syncFrame" THEN 1 ELSE 0)]
  /\ UNCHANGED <<side, focus, running, piled, client, queue, told>>

getPiledFilterParams ==
  /\ work.phase = "got"
  /\ work' = [work EXCEPT !.phase = "taken", !.params = piled]
  /\ piled' = Enc!Unsaid
  /\ UNCHANGED <<side, focus, intf, running, client, queue, told, actual, needIdr, due, excused, count>>

\* Mutant: an encoder's format is only said if the frame has settings of its own.
OfFrame_WithUpdate ==
  IF work.update = <<>> THEN <<>>
  ELSE <<work.update[1]>> \o (IF work.restart THEN <<"startIDR">> ELSE <<>>)
                         \o (IF work.first THEN <<"actualFormat">> ELSE <<>>)

\* The settings that come with the frame, in their order.
OfFrame ==
  (IF work.update = <<>> THEN <<>> ELSE <<work.update[1]>>)
  \o (IF work.restart THEN <<"startIDR">> ELSE <<>>)
  \o (IF work.first THEN <<"actualFormat">> ELSE <<>>)

\* If one of them is refused the filters are told of none of them.
ApplyConfig ==
  /\ work.phase = "taken"
  /\ LET updated == IF work.update = <<>> THEN intf ELSE [intf EXCEPT ![work.update[1]] = work.update[2]]
         given   == IF work.restart THEN [updated EXCEPT !.startIDR = TRUE] ELSE updated
         refused == BadValue(given)
     IN  /\ Take(given, Range(OfFrame), refused)
         /\ work' = [work EXCEPT !.phase = "applied", !.refused = refused]
         /\ count' = [count EXCEPT !.refusals = @ + (IF refused THEN 1 ELSE 0)]
  /\ UNCHANGED <<side, focus, running, piled, client, queue, told, actual, needIdr>>

\* What they say replaces what was piled up before.  A client may have piled up more
\* since: that goes with the next frame, although it is older.
queueFilterWork ==
  /\ work.phase = "applied"
  /\ LET all  == Converted(OfFrame, intf)
         said == IF work.refused THEN Enc!Unsaid ELSE all
         late == {f \in DOMAIN said \intersect DOMAIN piled : piled[f] # said[f]}
     IN  /\ queue' = Append(queue, [work EXCEPT !.params = said @@ @, !.phase = "queued"])
         /\ excused' = IF work.refused THEN excused \union DOMAIN all
                        ELSE (excused \ DOMAIN said) \union late
  /\ intf' = IF work.refused THEN intf ELSE AfterConversion(OfFrame, intf)
  /\ work' = Idle
  /\ UNCHANGED <<side, focus, running, piled, client, told, actual, needIdr, due, count>>

\* The first filters take a frame with what they are told.
Deliver ==
  /\ queue # <<>>
  /\ told' = Head(queue).params @@ told
  /\ queue' = Tail(queue)
  /\ UNCHANGED <<side, focus, intf, running, piled, client, work, actual, needIdr, due, excused, count>>

\* A flush drops the frames and what goes with them.
Flush ==
  /\ queue # <<>> /\ count.flushes < MaxFlushes
  /\ queue' = <<>>
  /\ excused' = excused \union UNION {DOMAIN queue[k].params : k \in DOMAIN queue}
  /\ count' = [count EXCEPT !.flushes = @ + 1]
  /\ UNCHANGED <<side, focus, intf, running, piled, client, work, told, actual, needIdr, due>>

\* A component that nobody asks for anything more.
Idling ==
  /\ running /\ work.phase = "none" /\ client = <<>> /\ queue = <<>> /\ count.frames = MaxFrames
  /\ UNCHANGED settingsVars

Next ==
  \/ Start
  \/ ClientSet
  \/ ClientKeep
  \/ onQueue
  \/ getPiledFilterParams
  \/ ApplyConfig
  \/ queueFilterWork
  \/ Deliver
  \/ Flush
  \/ Idling

Spec == Init /\ [][Next]_settingsVars

-----------------------------------------------------------------------------
TypeOK ==
  /\ running \in BOOLEAN /\ actual \in BOOLEAN /\ needIdr \in BOOLEAN
  /\ Len(client) <= 1
  /\ work.phase \in {"none", "got", "taken", "applied"}
  /\ \A k \in DOMAIN queue : queue[k].phase = "queued"
  /\ count.changes <= MaxChanges /\ count.frames <= MaxFrames /\ count.flushes <= MaxFlushes

\* When nothing is on its way the filters have been told what the interface says
\* now of every setting that changed, but for what is known to be missed.
Quiet == client = <<>> /\ work.phase = "none" /\ queue = <<>> /\ DOMAIN piled = {}
FiltersTold ==
  Quiet =>
    LET allowed == Allowed(intf)
    IN  /\ \A f \in (due \union DOMAIN told) \ (excused \union Orders) :
             f \in Kinds(allowed) => f \in DOMAIN told /\ <<f, told[f]>> \in allowed
        /\ DOMAIN told \subseteq Kinds(allowed) \union Sticky \union Orders

\* The settings are consistent with each other, and setting them again changes nothing.
AlwaysSettled ==
  /\ IF side = "enc" THEN Enc!Settled(intf) ELSE Dec!Settled(intf)
  /\ Settle(intf, intf) = intf

\* The first frame tells the format, a frame that restarts the stream the IDR period;
\* a sync frame that was asked for is on its way or was told, and none is told unasked.
RequestsReachFilters ==
  /\ \A k \in DOMAIN queue :
       ~queue[k].refused =>
         /\ queue[k].first => "actualFormat" \in DOMAIN queue[k].params
         /\ queue[k].restart => {"idrPeriod", "frameRate"} \subseteq DOMAIN queue[k].params
  /\ side = "enc" =>
       /\ count.refusals = 0 =>
            /\ intf.syncFrame => "syncFrame" \in Range(client) \union (IF work.phase = "applied" THEN Range(OfFrame) ELSE {})
            /\ count.syncs > 0 /\ Quiet /\ count.flushes = 0 => "requestSync" \in DOMAIN told
       /\ count.syncs = 0 => "requestSync" \notin DOMAIN told
=============================================================================
