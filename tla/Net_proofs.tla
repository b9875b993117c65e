------------------------------- MODULE Net_proofs -------------------------------
(* Theorems about the two modules of net/: about Download for all faults and *)
(* bounds, and about HttpMetaCache for any number of downloads, versions and *)
(* lifetimes. Their variables are disjoint and so are their behaviours: Spec *)
(* is that of Download, CacheSpec that of HttpMetaCache.                     *)
EXTENDS Download, HttpMetaCache, SequenceTheorems, FiniteSetTheorems, TLAPS

-----------------------------------------------------------------------------
(* Download.                                                                 *)

InFlight == m_reply \in {"open", "errored"}

Flags == /\ sound \in BOOLEAN
         /\ acceptLocal \in BOOLEAN
         /\ wroteAnyData \in BOOLEAN
         /\ stale \in BOOLEAN
         /\ crashed \in BOOLEAN
Typed == /\ m_sink \in {"file", "cache", "bytes"}
         /\ m_state \in States
         /\ m_reply \in {"none", "open", "errored", "done"}
         /\ size \in NoFile..MaxBody
         /\ m_output_file \in {"null", "unopened", "open", "cancelled"}
         /\ got \in 0..MaxBody
         /\ disk \in {"absent", "empty", "old", "new", "torn"}
         /\ emitted \in Seq(Ends)
Bounded == /\ redirects \in 0..MaxRedirects
           /\ starts \in 0..MaxStarts
           /\ aborts \in 0..MaxAborts

\* Nothing is emitted while a reply is in flight, and there is none before start().
Silent == starts = 0 => m_reply = "none" /\ emitted = << >>
\* What has been received belongs to the body, and came from a reply that has one.
Part == InFlight /\ size # NoFile => got <= size
Written == InFlight /\ OnDisk /\ wroteAnyData => size # NoFile
\* A sound sink has its save file until the reply is finished.
Opened == sound /\ OnDisk /\ InFlight => m_output_file # "null"
\* A success that is not yet reported is one of the file that is there.
Local == InFlight => \/ m_state \in {"Running", "Failed"}
                     \/ m_state = "Succeeded" /\ OnDisk /\ disk # "absent"
Cached == ~stale => m_sink = "cache"

Data == Silent /\ Part /\ Written /\ Opened /\ Local /\ Cached
Body == SuccessHasData /\ NoPartialArray /\ NoNullUse
IInv == Flags /\ Typed /\ Bounded /\ ReportedOnce /\ Data /\ Body

-----------------------------------------------------------------------------
LEMMA EmitOnce ==
    ASSUME NEW s \in Ends
    PROVE  /\ Append(<< >>, s) = <<s>>
           /\ <<s>> \in Seq(Ends) /\ Len(<<s>>) = 1 /\ <<s>>[1] = s /\ <<s>> # << >>
OBVIOUS

LEMMA NoneEmitted == << >> \in Seq(Ends) /\ Len(<< >>) = 0
OBVIOUS

LEMMA ErrorStateTyped ==
    ASSUME Flags
    PROVE  /\ ErrorState \in {"Succeeded", "Failed"}
           /\ ErrorState = "Succeeded" => OnDisk /\ disk # "absent"
BY DEF Flags, ErrorState, HasLocalData

LEMMA ExecuteTaskInv ==
    ASSUME IInv, UNCHANGED setup, starts' \in 1..MaxStarts, aborts' \in 0..MaxAborts,
           redirects' \in 0..MaxRedirects,
           NEW s \in {"Running", "AbortedByUser", "Succeeded", "Failed"},
           NEW left \in {"none", "done"}, ExecuteTask(s, left, << >>)
    PROVE  IInv' /\ disk' = disk
<1> USE DownloadBounds DEF IInv
<1>1. CASE s = "AbortedByUser" /\ m_state' = s /\ m_reply' = left /\ emitted' = << >>
           /\ UNCHANGED <<size, sinkVars>>
  <2>1. Flags' /\ disk' = disk
    BY <1>1 DEF Flags, setup, sinkVars
  <2>2. Typed' /\ Bounded'
    BY <1>1, NoneEmitted DEF Typed, Bounded, setup, sinkVars, States, Ends
  <2>3. ReportedOnce'
    BY <1>1, NoneEmitted DEF ReportedOnce
  <2>4. Data'
    BY <1>1 DEF Data, Silent, Part, Written, Opened, Local, Cached, InFlight, Flags, setup, sinkVars
  <2>5. Body'
    BY <1>1 DEF Body, SuccessHasData, NoPartialArray, NoNullUse, OnDisk, setup, sinkVars
  <2> QED BY <2>1, <2>2, <2>3, <2>4, <2>5
<1>2. CASE ~stale /\ m_state' = "Succeeded" /\ m_reply' = left
           /\ emitted' = Append(<< >>, "Succeeded") /\ UNCHANGED <<size, sinkVars>>
  <2>0. emitted' = <<"Succeeded">> /\ "Succeeded" \in Ends
    BY <1>2, EmitOnce DEF Ends
  <2>1. Flags' /\ disk' = disk
    BY <1>2 DEF Flags, setup, sinkVars
  <2>2. Typed' /\ Bounded'
    BY <1>2, <2>0, EmitOnce DEF Typed, Bounded, setup, sinkVars, States, Ends
  <2>3. ReportedOnce'
    BY <1>2, <2>0, EmitOnce DEF ReportedOnce
  <2>4. Data'
    BY <1>2 DEF Data, Silent, Part, Written, Opened, Local, Cached, InFlight, Flags, setup, sinkVars
  <2>5. m_sink' = "cache" /\ OnDisk'
    BY <1>2 DEF Data, Cached, OnDisk, setup
  <2>6. SuccessHasData'
    BY <1>2, <2>5 DEF Body, SuccessHasData, OnDisk, setup, sinkVars
  <2>7. NoPartialArray' /\ NoNullUse'
    BY <1>2, <2>5 DEF Body, NoPartialArray, NoNullUse, OnDisk, setup, sinkVars
  <2> QED BY <2>1, <2>2, <2>3, <2>4, <2>6, <2>7 DEF Body
<1>3. CASE stale /\ OnDisk
           /\ (\E f \in Refused \intersect {"path", "open"} :
                 m_output_file' = IF f = "open" THEN "unopened" ELSE m_output_file)
           /\ m_state' = "Failed" /\ m_reply' = left /\ emitted' = << >>
           /\ UNCHANGED <<size, wroteAnyData, got, disk, stale, crashed>>
  <2>1. Flags' /\ disk' = disk
    BY <1>3 DEF Flags, setup
  <2>2. Typed' /\ Bounded'
    BY <1>3, NoneEmitted DEF Typed, Bounded, setup, States, Ends
  <2>3. ReportedOnce'
    BY <1>3, NoneEmitted DEF ReportedOnce
  <2>4. Data'
    BY <1>3 DEF Data, Silent, Part, Written, Opened, Local, Cached, InFlight, Flags, setup
  <2>5. Body'
    BY <1>3 DEF Body, SuccessHasData, NoPartialArray, NoNullUse, OnDisk, setup
  <2> QED BY <2>1, <2>2, <2>3, <2>4, <2>5
<1>4. CASE stale /\ OpenSink /\ m_state' = "Running" /\ m_reply' = "open"
           /\ emitted' = << >> /\ size' \in NoFile..MaxBody
  <2>1. Flags' /\ disk' = disk
    BY <1>4 DEF Flags, setup, OpenSink
  <2>2. Typed' /\ Bounded'
    BY <1>4, NoneEmitted DEF Typed, Bounded, setup, States, Ends, OpenSink
  <2>3. ReportedOnce'
    BY <1>4, NoneEmitted DEF ReportedOnce
  <2>4. Part' /\ Silent'
    BY <1>4 DEF Part, Silent, OpenSink, NoFile
  <2>5. Written' /\ Opened'
    BY <1>4 DEF Written, Opened, OpenSink, OnDisk, setup
  <2>6. Local' /\ Cached'
    BY <1>4 DEF Local, Cached, Data, OpenSink, OnDisk, setup
  <2>7. Body'
    BY <1>4 DEF Body, SuccessHasData, NoPartialArray, NoNullUse, OpenSink, setup
  <2> QED BY <2>1, <2>2, <2>3, <2>4, <2>5, <2>6, <2>7 DEF Data
<1> QED BY <1>1, <1>2, <1>3, <1>4 DEF ExecuteTask

LEMMA ConcludeInv ==
    ASSUME IInv, InFlight, emitted = << >>, UNCHANGED setup, starts' \in 1..MaxStarts,
           aborts' \in 0..MaxAborts, redirects' \in 0..MaxRedirects, ~crashed,
           NEW s \in Ends, s = "Succeeded" => OnDisk /\ disk # "absent", Conclude(s)
    PROVE  IInv' /\ disk' = disk
<1> USE DownloadBounds DEF IInv
<1>0. /\ m_state' = s /\ m_reply' = "none" /\ size' = size /\ got' = 0 /\ disk' = disk
      /\ stale' = stale
      /\ emitted' \in {<< >>, <<s>>}
  BY EmitOnce DEF Conclude, AbortSink
<1>1. Flags'
  BY DEF Conclude, AbortSink, Flags, setup
<1>2. Typed' /\ Bounded'
  BY <1>0, EmitOnce, NoneEmitted DEF Typed, Bounded, Conclude, AbortSink, setup, States
<1>3. ReportedOnce'
  <2>1. CASE emitted' = << >>
    BY <2>1, NoneEmitted DEF ReportedOnce
  <2>2. CASE emitted' = <<s>>
    BY <1>0, <2>2, EmitOnce DEF ReportedOnce
  <2> QED BY <1>0, <2>1, <2>2
<1>4. Data'
  BY <1>0 DEF Data, Silent, Part, Written, Opened, Local, Cached, InFlight, Flags, setup
<1>5. SuccessHasData'
  <2>1. emitted' = <<"Succeeded">> => s = "Succeeded"
    BY <1>0
  <2>2. UNCHANGED <<OnDisk, disk, size, stale>>
    BY <1>0 DEF OnDisk, setup
  <2> QED BY <2>1, <2>2 DEF Body, SuccessHasData
<1>6. NoPartialArray'
  BY <1>0 DEF NoPartialArray
<1>7. NoNullUse'
  BY DEF NoNullUse, Conclude, AbortSink, Data, Opened, setup, Flags
<1> QED BY <1>0, <1>1, <1>2, <1>3, <1>4, <1>5, <1>6, <1>7 DEF Body

LEMMA FinalizeInv ==
    ASSUME IInv, InFlight, emitted = << >>, UNCHANGED setup, starts' \in 1..MaxStarts,
           aborts' \in 0..MaxAborts, redirects' \in 0..MaxRedirects, ~crashed,
           m_state = "Running", Finalize
    PROVE  IInv' /\ (disk' # disk => disk' = Whole(size) /\ emitted' = <<"Succeeded">>)
<1> USE DownloadBounds DEF IInv
<1> DEFINE rest == IF size > got THEN size - got ELSE 0
           keep == OnDisk => (size # NoFile \/ wroteAnyData \/ rest > 0)
<1>r. /\ rest \in 0..MaxBody /\ got + rest \in 0..MaxBody
      /\ size # NoFile => got + rest = size
      /\ OnDisk /\ keep => size # NoFile
  BY DEF Typed, Data, Part, Written, NoFile, Flags
<1>1. CASE Conclude("Failed")
  BY <1>1, ConcludeInv DEF Ends
<1>2. CASE /\ disk' = (IF OnDisk /\ keep
                       THEN IF got + rest = size THEN Whole(size) ELSE "torn"
                       ELSE disk)
           /\ stale' = (m_sink # "cache")
           /\ m_output_file' = "null"
           /\ wroteAnyData' = (wroteAnyData \/ (OnDisk /\ rest > 0))
           /\ got' = got + rest
           /\ m_state' = "Succeeded"
           /\ m_reply' = "none"
           /\ emitted' = Append(emitted, "Succeeded")
           /\ UNCHANGED <<size, crashed>>
  <2>0. emitted' = <<"Succeeded">> /\ "Succeeded" \in Ends
    BY <1>2, EmitOnce DEF Ends
  <2>1. disk' = (IF OnDisk /\ keep THEN Whole(size) ELSE disk)
    BY <1>2, <1>r
  <2>w. Whole(size) \in {"empty", "new"}
    BY DEF Whole
  <2>2. Flags'
    BY <1>2 DEF Flags, setup
  <2>3. Typed' /\ Bounded'
    BY <1>2, <1>r, <2>0, <2>1, <2>w, EmitOnce DEF Typed, Bounded, setup, States
  <2>4. ReportedOnce'
    BY <1>2, <2>0, EmitOnce DEF ReportedOnce
  <2>5. Data'
    BY <1>2 DEF Data, Silent, Part, Written, Opened, Local, Cached, InFlight, Flags, setup
  <2>6. SuccessHasData'
    BY <1>2, <1>r, <2>0, <2>1, <2>w DEF SuccessHasData, OnDisk, setup
  <2>7. NoPartialArray' /\ NoNullUse'
    BY <1>2, <2>0 DEF NoPartialArray, NoNullUse, Flags
  <2>8. disk' # disk => disk' = Whole(size)
    BY <2>1
  <2> QED BY <2>0, <2>2, <2>3, <2>4, <2>5, <2>6, <2>7, <2>8 DEF Body
<1>3. CASE /\ OnDisk /\ "write" \in Refused
           /\ crashed' = TRUE
           /\ m_output_file' = "null" /\ wroteAnyData' = FALSE /\ got' = 0
           /\ UNCHANGED <<m_state, replyVars, disk, stale, emitted>>
  <2>0. ~sound /\ ~sound'
    BY <1>3 DEF Refused, setup
  <2>1. Flags'
    BY <1>3 DEF Flags, setup
  <2>2. Typed' /\ Bounded'
    BY <1>3 DEF Typed, Bounded, setup, replyVars
  <2>3. ReportedOnce'
    BY <1>3, NoneEmitted DEF ReportedOnce
  <2>4. Silent' /\ Part'
    BY <1>3 DEF Silent, Part, replyVars, NoFile, Typed
  <2>5. Written' /\ Opened' /\ Local' /\ Cached'
    BY <1>3, <2>0 DEF Data, Written, Opened, Local, Cached, InFlight, OnDisk, setup, replyVars
  <2>6. Body'
    BY <1>3, <2>0 DEF Body, SuccessHasData, NoPartialArray, NoNullUse, OnDisk, setup, replyVars
  <2> QED BY <1>3, <2>1, <2>2, <2>3, <2>4, <2>5, <2>6 DEF Data
<1> QED BY <1>1, <1>2, <1>3 DEF Finalize

LEMMA FinishedInv ==
    ASSUME IInv, InFlight, emitted = << >>, UNCHANGED setup, starts' \in 1..MaxStarts,
           aborts' \in 0..MaxAborts, ~crashed,
           NEW s \in States \ {"Inactive"}, s = "Succeeded" => OnDisk /\ disk # "absent",
           s = "Running" => m_state = "Running",
           NEW location \in Locations, DownloadFinished(s, location)
    PROVE  IInv' /\ (disk' # disk => disk' = Whole(size) /\ emitted' = <<"Succeeded">>)
<1> USE DownloadBounds
<1>1. CASE location = "valid"
  <2>1. redirects' \in 0..MaxRedirects
    BY <1>1 DEF DownloadFinished, IInv, Bounded
  <2>2. ExecuteTask(s, "done", << >>)
    BY <1>1 DEF DownloadFinished
  <2>3. s \in {"Running", "AbortedByUser", "Succeeded", "Failed"}
    BY DEF States, Ends
  <2> QED BY <2>1, <2>2, <2>3, ExecuteTaskInv
<1>2. CASE location # "valid"
  <2> DEFINE state == IF location = "invalid" THEN ErrorState ELSE s
  <2>1. redirects' \in 0..MaxRedirects
    BY <1>2 DEF DownloadFinished, IInv, Bounded
  <2>2. state = "Succeeded" => OnDisk /\ disk # "absent"
    BY ErrorStateTyped DEF IInv
  <2>3. state = "Running" => m_state = "Running"
    BY ErrorStateTyped DEF IInv
  <2>4. CASE state \in Ends /\ Conclude(state)
    BY <2>1, <2>2, <2>4, ConcludeInv
  <2>5. CASE state = "Running" /\ Finalize
    BY <2>1, <2>3, <2>5, FinalizeInv
  <2> QED BY <1>2, <2>4, <2>5 DEF DownloadFinished
<1> QED BY <1>1, <1>2

LEMMA InFlightFacts ==
    ASSUME IInv, InFlight
    PROVE  /\ emitted = << >> /\ starts \in 1..MaxStarts
           /\ m_state \in States \ {"Inactive"}
           /\ m_state = "Succeeded" => OnDisk /\ disk # "absent"
<1>1. emitted = << >>
  BY DEF IInv, InFlight, ReportedOnce
<1>2. starts # 0
  BY DEF IInv, InFlight, Data, Silent
<1>3. starts \in 1..MaxStarts
  BY <1>2, DownloadBounds DEF IInv, Bounded
<1>4. m_state \in States \ {"Inactive"} /\ (m_state = "Succeeded" => OnDisk /\ disk # "absent")
  BY DEF IInv, InFlight, Data, Local, States, Ends
<1> QED BY <1>1, <1>3, <1>4

-----------------------------------------------------------------------------
LEMMA StartInv ==
    ASSUME IInv, UNCHANGED setup, Start
    PROVE  IInv' /\ disk' = disk
<1>1. m_reply \in {"none", "done"}
  BY DEF IInv, Start, ReportedOnce, Data, Silent
<1>2. starts' \in 1..MaxStarts /\ aborts' \in 0..MaxAborts /\ redirects' \in 0..MaxRedirects
  BY DownloadBounds DEF IInv, Start, Bounded
<1>3. ExecuteTask("Running", m_reply, << >>)
  BY DEF Start
<1> QED BY <1>1, <1>2, <1>3, ExecuteTaskInv

LEMMA ReadyReadInv ==
    ASSUME IInv, UNCHANGED setup, ReadyRead
    PROVE  IInv' /\ disk' = disk
<1> USE DownloadBounds DEF IInv
<1>0. InFlight /\ emitted = << >> /\ starts # 0 /\ emitted' = << >>
  BY InFlightFacts, 0 \notin 1..MaxStarts DEF ReadyRead, InFlight
<1>1. Flags'
  BY DEF Flags, setup, ReadyRead, OnDisk
<1>2. Bounded'
  BY DEF Bounded, ReadyRead, counters
<1>3. Typed'
  BY DEF Typed, setup, ReadyRead, replyVars, States, Ends, NoFile
<1>4. ReportedOnce'
  BY <1>0, NoneEmitted DEF ReportedOnce
<1>5. Silent' /\ Part'
  BY <1>0 DEF Silent, Part, Typed, ReadyRead, replyVars, counters, NoFile
<1>6. Written' /\ Cached'
  BY DEF Written, Cached, Data, Typed, ReadyRead, replyVars, NoFile, setup
<1>7. Opened' /\ Local'
  BY DEF Opened, Local, Data, InFlight, ReadyRead, replyVars, setup, OnDisk, Refused
<1>8. Body'
  BY <1>0 DEF Body, SuccessHasData, NoPartialArray, NoNullUse, ReadyRead, replyVars, setup, OnDisk
<1> QED BY <1>1, <1>2, <1>3, <1>4, <1>5, <1>6, <1>7, <1>8 DEF Data, ReadyRead

LEMMA ReplyErrorInv ==
    ASSUME IInv, UNCHANGED setup, ReplyError
    PROVE  IInv' /\ disk' = disk
<1> USE DownloadBounds DEF IInv
<1>0. InFlight /\ emitted = << >> /\ starts # 0 /\ emitted' = << >>
  BY InFlightFacts, 0 \notin 1..MaxStarts DEF ReplyError, InFlight
<1>1. Flags'
  BY DEF Flags, setup, ReplyError, sinkVars
<1>2. Typed' /\ Bounded'
  BY ErrorStateTyped DEF Typed, Bounded, setup, ReplyError, sinkVars, counters, States, Ends
<1>3. ReportedOnce'
  BY <1>0, NoneEmitted DEF ReportedOnce
<1>4. Silent' /\ Part' /\ Written'
  BY <1>0 DEF Data, Silent, Part, Written, InFlight, ReplyError, sinkVars, counters, OnDisk, setup
<1>5. Opened' /\ Local' /\ Cached'
  BY <1>0, ErrorStateTyped
     DEF Data, Opened, Local, Cached, InFlight, ReplyError, sinkVars, OnDisk, setup
<1>6. Body'
  BY <1>0 DEF Body, SuccessHasData, NoPartialArray, NoNullUse, ReplyError, sinkVars, setup, OnDisk
<1>7. disk' = disk
  BY DEF ReplyError, sinkVars
<1> QED BY <1>1, <1>2, <1>3, <1>4, <1>5, <1>6, <1>7 DEF Data

LEMMA ReplyFinishedInv ==
    ASSUME IInv, UNCHANGED setup, ReplyFinished
    PROVE  IInv' /\ (disk' # disk => disk' = Whole(size) /\ emitted' = <<"Succeeded">>)
<1>1. InFlight /\ ~crashed
  BY DEF ReplyFinished, InFlight
<1>2. starts' \in 1..MaxStarts /\ aborts' \in 0..MaxAborts
  BY <1>1, InFlightFacts DEF IInv, Bounded, ReplyFinished
<1> QED BY <1>1, <1>2, InFlightFacts, FinishedInv DEF ReplyFinished

LEMMA AbortInv ==
    ASSUME IInv, UNCHANGED setup, Abort
    PROVE  IInv' /\ (disk' # disk => disk' = Whole(size) /\ emitted' = <<"Succeeded">>)
<1>0. aborts' \in 0..MaxAborts /\ starts' = starts /\ ~crashed /\ emitted = << >>
  BY DownloadBounds DEF IInv, Abort, Bounded
<1>1. CASE /\ m_reply = "open"
           /\ \E location \in Locations : DownloadFinished("AbortedByUser", location)
  <2>1. InFlight
    BY <1>1 DEF InFlight
  <2>2. "AbortedByUser" \in States \ {"Inactive"}
    BY DEF States, Ends
  <2> QED BY <1>0, <1>1, <2>1, <2>2, InFlightFacts, FinishedInv
<1>2. CASE /\ m_reply \in {"none", "errored", "done"}
           /\ m_state' \in {m_state, "AbortedByUser"}
           /\ m_reply = "none" \/ m_state' = m_state
           /\ UNCHANGED <<replyVars, sinkVars, emitted, redirects>>
  <2> USE DEF IInv
  <2>1. Flags'
    BY <1>2 DEF Flags, setup, sinkVars
  <2>2. Typed' /\ Bounded'
    BY <1>0, <1>2 DEF Typed, Bounded, setup, sinkVars, replyVars, States, Ends
  <2>3. ReportedOnce'
    BY <1>0, <1>2, NoneEmitted DEF ReportedOnce
  <2>4. Silent' /\ Part' /\ Written'
    BY <1>0, <1>2 DEF Data, Silent, Part, Written, InFlight, sinkVars, replyVars, OnDisk, setup
  <2>5. Opened' /\ Local' /\ Cached'
    BY <1>2 DEF Data, Opened, Local, Cached, InFlight, sinkVars, replyVars, OnDisk, setup
  <2>6. Body'
    BY <1>0, <1>2 DEF Body, SuccessHasData, NoPartialArray, NoNullUse, sinkVars, replyVars, setup, OnDisk
  <2>7. disk' = disk
    BY <1>2 DEF sinkVars
  <2> QED BY <2>1, <2>2, <2>3, <2>4, <2>5, <2>6, <2>7 DEF Data
<1> QED BY <1>1, <1>2 DEF Abort

LEMMA StepInv ==
    ASSUME IInv, [Next]_vars
    PROVE  IInv' /\ (disk' # disk => disk' = Whole(size) /\ emitted' = <<"Succeeded">>)
<1>1. CASE Next
  BY <1>1, StartInv, ReadyReadInv, ReplyErrorInv, ReplyFinishedInv, AbortInv DEF Next
<1>2. CASE UNCHANGED vars
  <2> USE <1>2 DEF vars, setup, replyVars, sinkVars, counters
  <2>1. Flags'
    BY DEF IInv, Flags
  <2>2. Typed' /\ Bounded' /\ ReportedOnce'
    BY DEF IInv, Typed, Bounded, ReportedOnce
  <2>3. Data'
    BY DEF IInv, Data, Silent, Part, Written, Opened, Local, Cached, InFlight, OnDisk
  <2>4. Body'
    BY DEF IInv, Body, SuccessHasData, NoPartialArray, NoNullUse, OnDisk
  <2> QED BY <2>1, <2>2, <2>3, <2>4 DEF IInv
<1> QED BY <1>1, <1>2

LEMMA InitInv == Init => IInv
<1> SUFFICES ASSUME Init PROVE IInv
  OBVIOUS
<1> USE DownloadBounds DEF Init
<1>1. Flags
  BY DEF Flags
<1>2. Typed /\ Bounded /\ ReportedOnce
  BY NoneEmitted DEF Typed, Bounded, ReportedOnce, States, NoFile
<1>3. Data
  BY DEF Data, Silent, Part, Written, Opened, Local, Cached, InFlight
<1>4. Body
  BY DEF Body, SuccessHasData, NoPartialArray, NoNullUse
<1> QED BY <1>1, <1>2, <1>3, <1>4 DEF IInv

LEMMA AlwaysInv == Spec => []IInv
BY InitInv, StepInv, PTL DEF Spec

-----------------------------------------------------------------------------
\* A start is answered by at most one report, of the state the download is left
\* in, and no reply is in flight any more (Download.cpp: downloadFinished()).
THEOREM OneReportPerStart == Spec => []ReportedOnce
<1>1. IInv => ReportedOnce
  BY DEF IInv
<1> QED BY <1>1, AlwaysInv, PTL

\* What the target, the array and the cache entry hold is what was reported, and
\* a sound sink is never used without its save file (FileSink.cpp, MetaCacheSink.cpp).
THEOREM ReportIsTrue == Spec => []BodySound
<1>1. IInv => BodySound
  <2> SUFFICES ASSUME IInv PROVE BodySound
    OBVIOUS
  <2>1. TypeOK
    BY DEF IInv, Flags, Typed, Bounded, TypeOK
  <2> QED BY <2>1 DEF IInv, Body, BodySound
<1> QED BY <1>1, AlwaysInv, PTL

\* The target is replaced only by a complete body, with the report of success
\* (FileSink::finalize() commits its QSaveFile).
THEOREM TargetIsWholeOrOld == Spec => DiskIntact
<1>1. IInv /\ [Next]_vars =>
        [disk' # disk => disk' = Whole(size) /\ emitted' = <<"Succeeded">>]_vars
  BY StepInv
<1> QED BY <1>1, AlwaysInv, PTL DEF Spec, DiskIntact

-----------------------------------------------------------------------------
(* HttpMetaCache.                                                            *)

Tags == Versions \union {Missing}
Phases == {"idle", "asked", "sent", "200", "304"}
Records == [phase : Phases, obj : Objects \union {NoObject}, cond : Tags, got : Tags]
Genuine == file.content \in Versions
Objs == {dl[d].obj : d \in Downloads}

\* What was evicted and saved is not in the index; a download has its object.
SavedEviction == evicted = "saved" => index = NoEntry
HasObject == \A d \in Downloads : dl[d].phase # "idle" => dl[d].obj \in Objects
Books == CacheTypeOK /\ FreshIsSaved /\ EvictionSticks /\ SavedEviction /\ HasObject

\* The recorded hash is one of a version; a recorded time that is the file's tells
\* that the server sent the file.
Trusted(e) == /\ e.md5 \in Tags
              /\ e.changed <= now
              /\ e.changed = now => file.mtime = now
              /\ e.changed = file.mtime /\ file.content # Missing => Genuine

FileTimed == /\ file.mtime <= now
             /\ file.mtime = Missing <=> file.content = Missing

\* A download that trusts what is there, or asks whether it still holds, is right to.
Honest(d) == dl[d].phase # "idle" =>
                /\ dl[d].phase \in {"200", "304"} => dl[d].got \in Versions
                /\ dl[d].cond # Missing => Genuine
                /\ dl[d].phase = "304" => Genuine
                /\ heap[dl[d].obj].etag # Missing => Genuine
                /\ ~heap[dl[d].obj].stale => Genuine

Sound == /\ FileTimed
         /\ Trusted(index)
         /\ \A o \in Objects : Trusted(heap[o])
         /\ \A d \in Downloads : Honest(d)
         /\ ServedGenuine

-----------------------------------------------------------------------------
LEMMA Numbers ==
    /\ Missing = -1 /\ NoHit = -2 /\ Junk = 0 /\ NoObject = 0 /\ Forever = MaxTime + 1
    /\ MaxTime \in Nat /\ 1 \in Versions /\ Forever \in Nat /\ Versions \subseteq Nat \ {0}
    /\ Missing \notin Versions /\ Junk \notin Versions
BY CacheBounds DEF Missing, NoHit, Junk, NoObject, Forever, Versions

LEMMA ObjectsFinite ==
    /\ Cardinality(Downloads) \in Nat /\ 1 \in Objects /\ NoObject \notin Objects
    /\ IsFiniteSet(Objects) /\ Cardinality(Objects) = Cardinality(Downloads) + 2
<1>1. Cardinality(Downloads) \in Nat
  BY DownloadsAssumption, FS_CardinalityType
<1>2. IsFiniteSet(Objects) /\ Cardinality(Objects) = Cardinality(Downloads) + 2
  BY <1>1, FS_Interval DEF Objects
<1> QED BY <1>1, <1>2 DEF Objects, NoObject

\* There is always an object that nobody holds: the model has enough of them.
LEMMA FreeExists ==
    ASSUME CacheTypeOK
    PROVE  FreeObject \in Objects /\ FreeObject \notin Held
<1>1. IsFiniteSet(Objs) /\ Cardinality(Objs) <= Cardinality(Downloads)
  <2> DEFINE f == [d \in Downloads |-> dl[d].obj]
  <2>1. f \in Surjection(Downloads, Objs)
    BY DEF Surjection, Objs
  <2> QED BY <2>1, FS_Surjection, DownloadsAssumption
<1>2. Held = Objs \cup {entry}
  BY DEF Held, Objs
<1>3. IsFiniteSet(Held) /\ Cardinality(Held) <= Cardinality(Downloads) + 1
  <2>1. Cardinality(Objs) \in Nat
    BY <1>1, FS_CardinalityType
  <2>2. /\ IsFiniteSet(Objs \cup {entry})
        /\ Cardinality(Objs \cup {entry})
             = IF entry \in Objs THEN Cardinality(Objs) ELSE Cardinality(Objs) + 1
    BY <1>1, FS_AddElement
  <2> QED BY <1>1, <1>2, <2>1, <2>2, ObjectsFinite
<1>4. ~(Objects \subseteq Held)
  <2> SUFFICES ASSUME Objects \subseteq Held PROVE FALSE
    OBVIOUS
  <2>1. Objects \in SUBSET Held
    OBVIOUS
  <2>2. Cardinality(Objects) <= Cardinality(Held)
    BY <1>3, <2>1, FS_Subset
  <2> QED BY <1>3, <2>2, ObjectsFinite, FS_CardinalityType
<1> QED BY <1>4 DEF FreeObject

LEMMA BlankTyped == /\ Blank \in Entries /\ NoEntry = Blank /\ Blank.stale
                    /\ Blank.etag = Missing /\ Blank.changed = Missing /\ Blank.md5 = Missing
BY Numbers DEF Blank, NoEntry, Entries, Contents, Times

\* Dropping objects nobody holds changes none that is held.
LEMMA LiveFacts ==
    ASSUME NEW h \in [Objects -> Entries], NEW e, NEW ds
    PROVE  /\ Live(h, e, ds) \in [Objects -> Entries]
           /\ \A o \in Objects : Live(h, e, ds)[o] \in {h[o], Blank}
           /\ e \in Objects => Live(h, e, ds)[e] = h[e]
           /\ \A d \in Downloads : ds[d].obj \in Objects => Live(h, e, ds)[ds[d].obj] = h[ds[d].obj]
BY BlankTyped DEF Live

LEMMA EntryFields ==
    ASSUME NEW e \in Entries
    PROVE  /\ e.md5 \in Contents /\ e.etag \in Tags /\ e.changed \in Times
           /\ e.life \in 0..Forever /\ e.stale \in BOOLEAN
BY DEF Entries, Tags

LEMMA ResolvedFacts ==
    ASSUME CacheTypeOK
    PROVE  LET r == Resolved IN
           /\ r.obj \in Objects /\ r.heap \in [Objects -> Entries]
           /\ \/ /\ r.entry = entry /\ entry \in Objects /\ r.obj = entry /\ Keeps(heap[entry])
                 /\ r.heap = [heap EXCEPT ![entry].changed = file.mtime]
              \/ /\ r.entry = NoObject /\ r.obj \notin Held
                 /\ r.heap = [heap EXCEPT ![r.obj] = Blank]
<1> DEFINE r == Resolved
<1>1. CASE entry # NoObject /\ Keeps(heap[entry])
  <2>1. r = [obj |-> entry, entry |-> entry,
             heap |-> [heap EXCEPT ![entry].changed = file.mtime]]
    BY <1>1 DEF Resolved
  <2>2. entry \in Objects /\ file.mtime \in Times
    BY <1>1 DEF CacheTypeOK
  <2>3. [heap EXCEPT ![entry].changed = file.mtime] \in [Objects -> Entries]
    BY <2>2 DEF CacheTypeOK, Entries
  <2> QED BY <1>1, <2>1, <2>2, <2>3
<1>2. CASE ~(entry # NoObject /\ Keeps(heap[entry]))
  <2>1. r = [obj |-> FreeObject, entry |-> NoObject,
             heap |-> [heap EXCEPT ![FreeObject] = Blank]]
    BY <1>2 DEF Resolved
  <2>2. [heap EXCEPT ![FreeObject] = Blank] \in [Objects -> Entries]
    BY BlankTyped DEF CacheTypeOK
  <2> QED BY <2>1, <2>2, FreeExists
<1> QED BY <1>1, <1>2

-----------------------------------------------------------------------------
\* What resolveEntry() leaves when Ask or Evict take the object they get: "marked"
\* tells whether it is marked stale.
LEMMA TakeBooks ==
    ASSUME Books, NEW marked \in BOOLEAN,
           entry' = Resolved.entry,
           dl' \in [Downloads -> Records],
           heap' = Live(IF marked THEN [Resolved.heap EXCEPT ![Resolved.obj].stale = TRUE]
                        ELSE Resolved.heap, entry', dl')
    PROVE  /\ heap' \in [Objects -> Entries] /\ entry' \in Objects \union {NoObject}
           /\ entry' # NoObject =>
                /\ entry' = entry /\ Keeps(heap[entry])
                /\ heap[entry].stale => heap'[entry].stale
                /\ marked => heap'[entry].stale
                /\ ~heap'[entry].stale => heap'[entry] = [heap[entry] EXCEPT !.changed = file.mtime]
<1> DEFINE r == Resolved
           h == IF marked THEN [r.heap EXCEPT ![r.obj].stale = TRUE] ELSE r.heap
<1>1. r.obj \in Objects /\ r.heap \in [Objects -> Entries]
  BY ResolvedFacts DEF Books
<1>2. [r.heap EXCEPT ![r.obj].stale = TRUE] \in [Objects -> Entries]
  BY <1>1 DEF Entries
<1>3. h \in [Objects -> Entries]
  BY <1>1, <1>2
<1>4. heap' \in [Objects -> Entries] /\ (entry' \in Objects => heap'[entry'] = h[entry'])
  <2>1. heap' = Live(h, entry', dl')
    OBVIOUS
  <2> HIDE DEF h
  <2> QED BY <1>3, <2>1, LiveFacts
<1>5. CASE r.entry = NoObject
  BY <1>4, <1>5
<1>6. CASE r.entry # NoObject
  <2>1. /\ r.entry = entry /\ entry \in Objects /\ r.obj = entry /\ Keeps(heap[entry])
        /\ r.heap = [heap EXCEPT ![entry].changed = file.mtime]
    BY <1>6, ResolvedFacts DEF Books
  <2>2. heap[entry] \in Entries
    BY <2>1 DEF Books, CacheTypeOK
  <2>3. r.heap[entry] = [heap[entry] EXCEPT !.changed = file.mtime]
    BY <2>1 DEF Books, CacheTypeOK
  <2>4. r.heap[entry].stale = heap[entry].stale
    BY <2>2, <2>3 DEF Entries
  <2>5. [r.heap EXCEPT ![r.obj].stale = TRUE][entry].stale
    BY <1>1, <2>1, <2>2, <2>3 DEF Entries
  <2>6. CASE marked
    BY <1>4, <2>1, <2>5, <2>6
  <2>7. CASE ~marked
    BY <1>4, <2>1, <2>3, <2>4, <2>7
  <2> QED BY <2>6, <2>7
<1> QED BY <1>5, <1>6

LEMMA AskBooks ==
    ASSUME Books, NEW d \in Downloads, NEW force \in BOOLEAN, Ask(d, force)
    PROVE  Books'
<1> DEFINE r == Resolved
<1>1. r.obj \in Objects
  BY ResolvedFacts DEF Books
<1>2. dl' = [dl EXCEPT ![d] = [Idle EXCEPT !.phase = "asked", !.obj = r.obj]]
  BY DEF Ask
<1>3. [Idle EXCEPT !.phase = "asked", !.obj = r.obj] \in Records
  BY <1>1 DEF Records, Phases, Tags, Idle
<1>4. dl' \in [Downloads -> Records] /\ HasObject'
  BY <1>1, <1>2, <1>3 DEF Books, CacheTypeOK, Records, Phases, Tags, HasObject, Idle
<1>5. /\ entry' = r.entry /\ dirty' = (dirty \/ SavesRestamp) /\ served' = NoHit
      /\ heap' = Live(IF force THEN [r.heap EXCEPT ![r.obj].stale = TRUE] ELSE r.heap, entry', dl')
      /\ UNCHANGED <<file, index, server, now, evicted>>
  BY DEF Ask
<1>6. /\ heap' \in [Objects -> Entries] /\ entry' \in Objects \union {NoObject}
      /\ entry' # NoObject =>
           /\ entry' = entry /\ Keeps(heap[entry])
           /\ heap[entry].stale => heap'[entry].stale
           /\ ~heap'[entry].stale => heap'[entry] = [heap[entry] EXCEPT !.changed = file.mtime]
  BY <1>4, <1>5, TakeBooks
<1>7. dirty' \in BOOLEAN
  BY <1>5 DEF Books, CacheTypeOK, SavesRestamp
<1>8. CacheTypeOK'
  BY <1>4, <1>5, <1>6, <1>7 DEF Books, CacheTypeOK, Records, Phases, Tags
<1>9. EvictionSticks' /\ SavedEviction'
  BY <1>5, <1>6 DEF Books, EvictionSticks, SavedEviction
<1>10. FreshIsSaved'
  <2> SUFFICES ASSUME entry' # NoObject, ~heap'[entry'].stale, ~dirty'
               PROVE  index' = heap'[entry']
    BY DEF FreshIsSaved
  <2>1. /\ entry' = entry /\ Keeps(heap[entry]) /\ ~heap[entry].stale
        /\ heap'[entry] = [heap[entry] EXCEPT !.changed = file.mtime]
    BY <1>6
  <2>2. ~dirty /\ ~Restamps(heap[entry])
    BY <1>5, <2>1 DEF SavesRestamp
  <2>3. heap[entry].changed = file.mtime
    BY <2>1, <2>2 DEF Keeps, Restamps
  <2>4. heap[entry] \in Entries
    BY <2>1 DEF Books, CacheTypeOK
  <2>5. heap'[entry] = heap[entry]
    BY <2>1, <2>3, <2>4 DEF Entries
  <2> QED BY <1>5, <2>1, <2>2, <2>5 DEF Books, FreshIsSaved
<1> QED BY <1>4, <1>8, <1>9, <1>10 DEF Books

\* The object of a download stays alive with it, and so does the entry.
LEMMA KeepBooks ==
    ASSUME Books, heap' = Live(heap, entry, dl'), dl' \in [Downloads -> Records],
           \A d \in Downloads : dl'[d].phase # "idle" => dl'[d].obj = dl[d].obj /\ dl[d].phase # "idle",
           UNCHANGED <<entry, file, index, dirty, server, now, evicted>>,
           served' \in Contents \union {NoHit}
    PROVE  Books'
<1>1. heap' \in [Objects -> Entries] /\ (entry \in Objects => heap'[entry] = heap[entry])
  BY LiveFacts DEF Books, CacheTypeOK
<1>2. CacheTypeOK'
  BY <1>1 DEF Books, CacheTypeOK, Records, Phases, Tags
<1>3. FreshIsSaved' /\ EvictionSticks' /\ SavedEviction' /\ HasObject'
  BY <1>1 DEF Books, CacheTypeOK, FreshIsSaved, EvictionSticks, SavedEviction, HasObject
<1> QED BY <1>2, <1>3 DEF Books

LEMMA BeginBooks ==
    ASSUME Books, NEW d \in Downloads, Begin(d)
    PROVE  Books'
<1> DEFINE e == heap[dl[d].obj]
<1>0. /\ dl \in [Downloads -> Records] /\ dl[d].phase # "idle" /\ dl[d].obj \in Objects
      /\ e \in Entries
  BY DEF Books, CacheTypeOK, Records, Phases, Tags, Begin, HasObject
<1>1. Idle \in Records /\ Idle.phase = "idle"
  BY DEF Idle, Records, Phases, Tags
<1>2. CASE ~e.stale /\ served' = file.content /\ dl' = [dl EXCEPT ![d] = Idle]
  <2>1. served' \in Contents \union {NoHit}
    BY <1>2 DEF Books, CacheTypeOK
  <2>2. /\ dl' \in [Downloads -> Records]
        /\ \A x \in Downloads : dl'[x].phase # "idle" => dl'[x].obj = dl[x].obj /\ dl[x].phase # "idle"
    BY <1>0, <1>1, <1>2
  <2> QED BY <2>1, <2>2, KeepBooks DEF Begin
<1>3. CASE /\ e.stale /\ served' = NoHit
           /\ dl' = [dl EXCEPT ![d].phase = "sent",
                               ![d].cond = IF file.content = Missing THEN Missing ELSE e.etag]
  <2>1. e.etag \in Tags /\ Missing \in Tags
    BY <1>0 DEF Entries, Tags
  <2> DEFINE c == IF file.content = Missing THEN Missing ELSE e.etag
             new == [dl[d] EXCEPT !.phase = "sent", !.cond = c]
  <2>2. dl' \in [Downloads -> Records]
    <3>1. dl' = [dl EXCEPT ![d] = new]
      BY <1>0, <1>3
    <3>2. c \in Tags /\ dl[d] \in Records
      BY <1>0, <2>1
    <3>3. new \in Records
      BY <3>2 DEF Records, Phases
    <3> QED BY <1>0, <3>1, <3>3
  <2>3. \A x \in Downloads : dl'[x].phase # "idle" => dl'[x].obj = dl[x].obj /\ dl[x].phase # "idle"
    BY <1>0, <1>3 DEF Records
  <2> QED BY <1>3, <2>2, <2>3, KeepBooks DEF Begin
<1> QED BY <1>2, <1>3 DEF Begin

LEMMA FailBooks ==
    ASSUME Books, NEW d \in Downloads, Fail(d)
    PROVE  Books'
<1>1. Idle \in Records /\ Idle.phase = "idle"
  BY DEF Idle, Records, Phases, Tags
<1>2. dl \in [Downloads -> Records] /\ dl' = [dl EXCEPT ![d] = Idle]
  BY DEF Books, CacheTypeOK, Records, Phases, Tags, Fail
<1>3. /\ dl' \in [Downloads -> Records]
      /\ \A x \in Downloads : dl'[x].phase # "idle" => dl'[x].obj = dl[x].obj /\ dl[x].phase # "idle"
  BY <1>1, <1>2
<1> QED BY <1>3, KeepBooks DEF Fail

\* updateEntry() after a reply: the new entry is fresh and the timer runs.
LEMMA UpdateBooks ==
    ASSUME Books, NEW d \in Downloads, dl[d].phase # "idle", NEW e \in Entries,
           UpdateEntry(d, e), evicted' \in {"no", "revived"}, served' = NoHit,
           file' \in [content : Contents, mtime : Times], UNCHANGED <<index, server, now>>
    PROVE  Books' /\ heap' \in [Objects -> Entries]
<1>1. Idle \in Records /\ Idle.phase = "idle"
  BY DEF Idle, Records, Phases, Tags
<1>2. dl \in [Downloads -> Records] /\ dl[d].obj \in Objects
  BY DEF Books, CacheTypeOK, Records, Phases, Tags, HasObject
<1>3. /\ dl' = [dl EXCEPT ![d] = Idle] /\ entry' = dl[d].obj /\ dirty' = TRUE
      /\ heap' = Live([heap EXCEPT ![dl[d].obj] = e], entry', dl')
  BY DEF UpdateEntry
<1>4. dl' \in [Downloads -> Records] /\ HasObject'
  BY <1>1, <1>2, <1>3 DEF Books, HasObject
<1>5. [heap EXCEPT ![dl[d].obj] = e] \in [Objects -> Entries]
  BY DEF Books, CacheTypeOK
<1>6. heap' \in [Objects -> Entries]
  BY <1>3, <1>5, LiveFacts
<1>7. CacheTypeOK'
  BY <1>2, <1>3, <1>4, <1>6 DEF Books, CacheTypeOK, Records, Phases, Tags
<1>8. FreshIsSaved' /\ EvictionSticks' /\ SavedEviction'
  BY <1>3 DEF FreshIsSaved, EvictionSticks, SavedEviction
<1> QED BY <1>4, <1>6, <1>7, <1>8 DEF Books

LEMMA ValidatedTyped ==
    ASSUME Books, NEW d \in Downloads, dl[d].phase # "idle", NEW mtime \in Times, NEW l \in Lifetimes
    PROVE  /\ Validated(heap[dl[d].obj], d, mtime, l) \in Entries
           /\ Validated(heap[dl[d].obj], d, mtime, l).changed = mtime
           /\ Validated(heap[dl[d].obj], d, mtime, l).md5 = heap[dl[d].obj].md5
           /\ Validated(heap[dl[d].obj], d, mtime, l).etag = dl[d].got
<1>1. heap[dl[d].obj] \in Entries /\ dl[d].got \in Tags
  BY DEF Books, CacheTypeOK, HasObject, Tags
<1>2. l \in 0..Forever /\ Forever \in 0..Forever
  BY Numbers, CacheBounds
<1> QED BY <1>1, <1>2 DEF Validated, Entries, Tags

LEMMA Finish200Books ==
    ASSUME Books, NEW d \in Downloads, Finish200(d)
    PROVE  Books'
<1>1. PICK l \in Lifetimes :
        UpdateEntry(d, [Validated(heap[dl[d].obj], d, now, l) EXCEPT !.md5 = dl[d].got])
  BY DEF Finish200
<1>2. now \in Times /\ dl[d].got \in Contents /\ dl[d].phase # "idle"
  BY DEF Books, CacheTypeOK, Times, Finish200, Contents
<1>3. [Validated(heap[dl[d].obj], d, now, l) EXCEPT !.md5 = dl[d].got] \in Entries
  BY <1>2, ValidatedTyped DEF Entries
<1>4. file' \in [content : Contents, mtime : Times]
  BY <1>2 DEF Finish200
<1> QED BY <1>1, <1>2, <1>3, <1>4, UpdateBooks DEF Finish200

LEMMA Finish304Books ==
    ASSUME Books, NEW d \in Downloads, Finish304(d)
    PROVE  Books'
<1>1. PICK l \in Lifetimes : UpdateEntry(d, Validated(heap[dl[d].obj], d, file.mtime, l))
  BY DEF Finish304
<1>2. file.mtime \in Times /\ dl[d].phase # "idle"
  BY DEF Books, CacheTypeOK, Finish304
<1>3. file' \in [content : Contents, mtime : Times]
  BY DEF Books, CacheTypeOK, Finish304
<1> QED BY <1>1, <1>2, <1>3, ValidatedTyped, UpdateBooks DEF Finish304

LEMMA RespondBooks ==
    ASSUME Books, NEW d \in Downloads, Respond(d)
    PROVE  Books' /\ dl' \in [Downloads -> Records]
<1>1. /\ dl \in [Downloads -> Records] /\ server \in Tags /\ dl[d].phase # "idle"
  BY DEF Books, CacheTypeOK, Records, Phases, Tags, Respond
<1>2. dl' \in [Downloads -> Records]
  <2> DEFINE p == IF dl[d].cond = server THEN "304" ELSE "200"
             new == [dl[d] EXCEPT !.phase = p, !.got = server]
  <2>1. dl' = [dl EXCEPT ![d] = new]
    BY <1>1 DEF Respond
  <2>2. p \in Phases /\ dl[d] \in Records
    BY <1>1 DEF Phases
  <2>3. new \in Records
    BY <1>1, <2>2 DEF Records
  <2> QED BY <1>1, <2>1, <2>3
<1>3. HasObject'
  BY <1>1 DEF Books, HasObject, Respond, Records
<1>4. CacheTypeOK'
  BY <1>2 DEF Books, CacheTypeOK, Respond, Records, Phases, Tags
<1> QED BY <1>2, <1>3, <1>4 DEF Books, Respond, FreshIsSaved, EvictionSticks, SavedEviction

LEMMA EvictBooks ==
    ASSUME Books, Evict
    PROVE  Books'
<1>1. /\ entry' = Resolved.entry /\ dirty' = TRUE /\ evicted' = "evicted" /\ served' = NoHit
      /\ heap' = Live([Resolved.heap EXCEPT ![Resolved.obj].stale = TRUE], entry', dl)
      /\ UNCHANGED <<dl, file, index, server, now>>
  BY DEF Evict
<1>2. dl' \in [Downloads -> Records] /\ dl' = dl
  BY <1>1 DEF Books, CacheTypeOK, Records, Phases, Tags
<1>3. /\ heap' \in [Objects -> Entries] /\ entry' \in Objects \union {NoObject}
      /\ entry' # NoObject => entry' = entry /\ heap'[entry].stale
  BY <1>1, <1>2, TakeBooks
<1>4. CacheTypeOK' /\ HasObject'
  BY <1>1, <1>3 DEF Books, CacheTypeOK, HasObject
<1>5. FreshIsSaved' /\ EvictionSticks' /\ SavedEviction'
  BY <1>1, <1>3 DEF FreshIsSaved, EvictionSticks, SavedEviction
<1> QED BY <1>4, <1>5 DEF Books

LEMMA SaveNowBooks ==
    ASSUME Books, SaveNow
    PROVE  Books'
<1>1. Saved \in Entries
  BY BlankTyped DEF Saved, Books, CacheTypeOK
<1>2. CacheTypeOK' /\ HasObject'
  BY <1>1 DEF Books, CacheTypeOK, HasObject, SaveNow
<1>3. FreshIsSaved' /\ EvictionSticks'
  BY DEF Books, FreshIsSaved, EvictionSticks, SaveNow, Saved
<1>4. SavedEviction'
  BY DEF Books, SavedEviction, EvictionSticks, SaveNow, Saved
<1> QED BY <1>2, <1>3, <1>4 DEF Books

LEMMA RestartBooks ==
    ASSUME Books, Restart
    PROVE  Books'
<1>1. Idle \in Records /\ Idle.phase = "idle"
  BY DEF Idle, Records, Phases, Tags
<1>2. /\ heap' \in [Objects -> Entries] /\ entry' \in Objects \union {NoObject}
      /\ entry' # NoObject => heap'[entry'] = index
      /\ entry' = NoObject <=> index = NoEntry
  BY ObjectsFinite, BlankTyped, Numbers DEF Restart, Books, CacheTypeOK
<1>3. CacheTypeOK' /\ HasObject'
  BY <1>1, <1>2 DEF Books, CacheTypeOK, HasObject, Restart, Records, Phases, Tags
<1>4. FreshIsSaved' /\ SavedEviction'
  BY <1>2 DEF Books, FreshIsSaved, SavedEviction, Restart
<1>5. EvictionSticks'
  BY <1>2 DEF Books, EvictionSticks, SavedEviction, Restart
<1> QED BY <1>3, <1>4, <1>5 DEF Books

LEMMA WorldBooks ==
    ASSUME Books, \/ Tick \/ Publish \/ Tamper
    PROVE  Books'
<1>1. CASE Tick
  BY <1>1, CacheBounds DEF Tick, Books, CacheTypeOK, FreshIsSaved, EvictionSticks, SavedEviction, HasObject
<1>2. CASE Publish
  BY <1>2, CacheBounds
     DEF Publish, Books, CacheTypeOK, FreshIsSaved, EvictionSticks, SavedEviction, HasObject, Versions
<1>3. CASE Tamper
  <2>1. now \in Times /\ Missing \in Times /\ Junk \in Contents /\ Missing \in Contents
    BY DEF Books, CacheTypeOK, Times, Contents
  <2>2. file' \in [content : Contents, mtime : Times]
    BY <1>3, <2>1 DEF Tamper, Books, CacheTypeOK
  <2> QED BY <1>3, <2>2
          DEF Tamper, Books, CacheTypeOK, FreshIsSaved, EvictionSticks, SavedEviction, HasObject
<1> QED BY <1>1, <1>2, <1>3

LEMMA StepBooks ==
    ASSUME Books, [CacheNext]_cacheVars
    PROVE  Books'
<1>1. CASE CacheNext
  BY <1>1, WorldBooks, EvictBooks, SaveNowBooks, RestartBooks, AskBooks, BeginBooks,
     RespondBooks, FailBooks, Finish200Books, Finish304Books DEF CacheNext
<1>2. CASE UNCHANGED cacheVars
  BY <1>2 DEF cacheVars, Books, CacheTypeOK, FreshIsSaved, EvictionSticks, SavedEviction, HasObject
<1> QED BY <1>1, <1>2

LEMMA InitBooks == CacheInit => Books
<1> SUFFICES ASSUME CacheInit PROVE Books
  OBVIOUS
<1>1. Idle \in Records /\ Idle.phase = "idle"
  BY DEF Idle, Records, Phases, Tags
<1>2. CacheTypeOK
  <2>1. heap \in [Objects -> Entries] /\ index \in Entries
    BY BlankTyped DEF CacheInit
  <2>2. dl \in [Downloads -> Records]
    BY <1>1 DEF CacheInit
  <2>3. file \in [content : Contents, mtime : Times]
    BY DEF CacheInit, Contents, Times
  <2>4. server \in Versions /\ now \in 0..MaxTime
    BY Numbers DEF CacheInit
  <2>5. entry \in Objects \union {NoObject} /\ served \in Contents \union {NoHit}
    BY DEF CacheInit
  <2>6. dirty \in BOOLEAN /\ evicted \in {"no", "evicted", "saved", "revived"}
    BY DEF CacheInit
  <2> QED BY <2>1, <2>2, <2>3, <2>4, <2>5, <2>6 DEF CacheTypeOK, Records, Phases, Tags
<1>3. FreshIsSaved /\ EvictionSticks /\ SavedEviction /\ HasObject
  BY <1>1 DEF CacheInit, FreshIsSaved, EvictionSticks, SavedEviction, HasObject
<1> QED BY <1>2, <1>3 DEF Books

LEMMA AlwaysBooks == CacheSpec => []Books
BY InitBooks, StepBooks, PTL DEF CacheSpec

-----------------------------------------------------------------------------
\* A blank entry records nothing that could be wrong.
LEMMA BlankTrusted ==
    ASSUME Books, FileTimed
    PROVE  Trusted(Blank)
<1>1. now \in Nat
  BY Numbers DEF Books, CacheTypeOK
<1> QED BY <1>1, BlankTyped, Numbers DEF Trusted, FileTimed, Tags

\* The objects after resolveEntry() may be trusted; the one it returns, and every one
\* a download holds, is fresh or tagged only if the file is genuine.
LEMMA TakeSound ==
    ASSUME Books, Sound, NEW marked \in BOOLEAN
    PROVE  LET r == Resolved
               h == IF marked THEN [r.heap EXCEPT ![r.obj].stale = TRUE] ELSE r.heap
           IN  /\ h \in [Objects -> Entries]
               /\ \A o \in Objects : Trusted(h[o])
               /\ h[r.obj].etag # Missing => Genuine
               /\ ~h[r.obj].stale => Genuine
               /\ \A d \in Downloads : dl[d].phase # "idle" =>
                    /\ h[dl[d].obj].etag # Missing => Genuine
                    /\ ~h[dl[d].obj].stale => Genuine
<1> DEFINE r == Resolved
           h == IF marked THEN [r.heap EXCEPT ![r.obj].stale = TRUE] ELSE r.heap
<1>1. r.obj \in Objects /\ r.heap \in [Objects -> Entries]
  BY ResolvedFacts DEF Books
<1>2. [r.heap EXCEPT ![r.obj].stale = TRUE] \in [Objects -> Entries]
  BY <1>1 DEF Entries
<1>3. h \in [Objects -> Entries]
  BY <1>1, <1>2
<1>4. \A o \in Objects : /\ h[o].md5 = r.heap[o].md5 /\ h[o].changed = r.heap[o].changed
                         /\ h[o].etag = r.heap[o].etag
                         /\ h[o].stale \/ (h[o].stale <=> r.heap[o].stale)
  BY <1>1 DEF Entries
<1>5. \A d \in Downloads : dl[d].phase # "idle" => dl[d].obj \in Objects
  BY DEF Books, HasObject
<1>6. CASE /\ r.entry = entry /\ entry \in Objects /\ r.obj = entry /\ Keeps(heap[entry])
           /\ r.heap = [heap EXCEPT ![entry].changed = file.mtime]
  <2>1. heap \in [Objects -> Entries] /\ heap[entry] \in Entries
    BY <1>6 DEF Books, CacheTypeOK
  <2>2. Genuine
    <3>1. Trusted(heap[entry])
      BY <1>6 DEF Sound
    <3>2. file.content # Missing
      BY <1>6 DEF Keeps
    <3>3. CASE file.mtime = heap[entry].changed
      BY <3>1, <3>2, <3>3 DEF Trusted
    <3>4. CASE file.content = heap[entry].md5
      BY <3>1, <3>2, <3>4 DEF Trusted, Tags, Genuine
    <3> QED BY <1>6, <3>3, <3>4 DEF Keeps
  <2>3. /\ r.heap[entry].md5 = heap[entry].md5 /\ r.heap[entry].changed = file.mtime
        /\ \A o \in Objects \ {entry} : r.heap[o] = heap[o]
    BY <1>6, <2>1 DEF Entries
  <2>4. Trusted(r.heap[entry])
    BY <1>6, <2>2, <2>3 DEF Sound, Trusted, FileTimed
  <2>5. \A o \in Objects : Trusted(r.heap[o])
    BY <2>3, <2>4 DEF Sound
  <2>6. \A o \in Objects : Trusted(h[o])
    BY <1>4, <2>5 DEF Trusted
  <2> QED BY <1>3, <2>2, <2>6
<1>7. CASE /\ r.entry = NoObject /\ r.obj \notin Held
           /\ r.heap = [heap EXCEPT ![r.obj] = Blank]
  <2>1. heap \in [Objects -> Entries]
    BY DEF Books, CacheTypeOK
  <2>2. r.heap[r.obj] = Blank /\ \A o \in Objects \ {r.obj} : r.heap[o] = heap[o]
    BY <1>1, <1>7, <2>1
  <2>3. \A o \in Objects : Trusted(r.heap[o])
    BY <2>2, BlankTrusted DEF Sound
  <2>4. \A o \in Objects : Trusted(h[o])
    BY <1>4, <2>3 DEF Trusted
  <2>5. h[r.obj].etag = Missing /\ h[r.obj].stale
    BY <1>1, <1>4, <2>2, BlankTyped
  <2>6. ASSUME NEW d \in Downloads, dl[d].phase # "idle"
        PROVE  /\ h[dl[d].obj].etag # Missing => Genuine
               /\ ~h[dl[d].obj].stale => Genuine
    <3>1. dl[d].obj \in Objects \ {r.obj}
      BY <1>5, <1>7, <2>6 DEF Held
    <3>2. r.heap[dl[d].obj] = heap[dl[d].obj]
      BY <2>2, <3>1
    <3>3. Honest(d)
      BY DEF Sound
    <3> QED BY <1>4, <2>6, <3>1, <3>2, <3>3 DEF Honest
  <2> QED BY <1>3, <2>4, <2>5, <2>6
<1> QED BY <1>6, <1>7, ResolvedFacts DEF Books

\* Dropping what nobody holds keeps the rest as trusted as it was.
LEMMA LiveTrusted ==
    ASSUME Books, Sound, NEW h \in [Objects -> Entries], NEW e, NEW ds,
           \A o \in Objects : Trusted(h[o])
    PROVE  \A o \in Objects : Trusted(Live(h, e, ds)[o])
BY LiveFacts, BlankTrusted DEF Sound

LEMMA AskSound ==
    ASSUME Books, Sound, NEW d \in Downloads, NEW force \in BOOLEAN, Ask(d, force)
    PROVE  Sound'
<1> DEFINE r == Resolved
           h == IF force THEN [r.heap EXCEPT ![r.obj].stale = TRUE] ELSE r.heap
<1>1. /\ dl' = [dl EXCEPT ![d] = [Idle EXCEPT !.phase = "asked", !.obj = r.obj]]
      /\ heap' = Live(h, entry', dl') /\ served' = NoHit
      /\ UNCHANGED <<file, index, server, now, evicted>>
  BY DEF Ask
<1>2. /\ h \in [Objects -> Entries] /\ \A o \in Objects : Trusted(h[o])
      /\ h[r.obj].etag # Missing => Genuine
      /\ ~h[r.obj].stale => Genuine
      /\ \A x \in Downloads : dl[x].phase # "idle" =>
           /\ h[dl[x].obj].etag # Missing => Genuine
           /\ ~h[dl[x].obj].stale => Genuine
  BY TakeSound
<1>3. r.obj \in Objects /\ dl \in [Downloads -> Records]
  BY ResolvedFacts DEF Books, CacheTypeOK, Records, Phases, Tags
<1> HIDE DEF r, h
<1>4. \A o \in Objects : Trusted(heap'[o])
  BY <1>1, <1>2, LiveTrusted
<1>5. \A x \in Downloads : dl'[x].obj \in Objects => heap'[dl'[x].obj] = h[dl'[x].obj]
  <2>1. heap' = Live(h, entry', dl') /\ h \in [Objects -> Entries]
    BY <1>1, <1>2
  <2> DEFINE ds == dl'
             e == entry'
  <2> HIDE DEF ds, e
  <2>2. \A x \in Downloads : ds[x].obj \in Objects => Live(h, e, ds)[ds[x].obj] = h[ds[x].obj]
    BY <2>1, LiveFacts
  <2> QED BY <2>1, <2>2 DEF ds, e
<1>6. FileTimed' /\ Trusted(index)' /\ (\A o \in Objects : Trusted(heap[o])')
  BY <1>1, <1>4 DEF Sound, FileTimed, Trusted, Genuine
<1>7. ASSUME NEW x \in Downloads, dl'[x].phase # "idle"
      PROVE  Honest(x)'
  <2>0. Genuine' <=> Genuine
    BY <1>1 DEF Genuine
  <2>1. CASE x = d
    <3>1. dl'[x].phase = "asked" /\ dl'[x].obj = r.obj /\ dl'[x].cond = Missing
      BY <1>1, <1>3, <2>1 DEF Idle
    <3> QED BY <1>2, <1>3, <1>5, <2>0, <3>1 DEF Honest
  <2>2. CASE x # d
    <3>1. dl'[x] = dl[x]
      BY <1>1, <1>3, <2>2
    <3>2. dl[x].obj \in Objects /\ Honest(x)
      BY <1>7, <3>1 DEF Books, HasObject, Sound
    <3> QED BY <1>2, <1>5, <1>7, <2>0, <3>1, <3>2 DEF Honest
  <2> QED BY <2>1, <2>2
<1>8. \A x \in Downloads : Honest(x)'
  BY <1>7 DEF Honest
<1>9. ServedGenuine'
  BY <1>1, Numbers DEF ServedGenuine
<1> QED BY <1>6, <1>8, <1>9 DEF Sound

\* The downloads after a step that changes no object but drops some.
LEMMA KeepSound ==
    ASSUME Books, Sound, heap' = Live(heap, entry, dl'), UNCHANGED <<entry, file, index, now>>,
           ServedGenuine',
           \A x \in Downloads : dl'[x].phase # "idle" =>
                /\ dl[x].phase # "idle" /\ dl'[x].obj = dl[x].obj
                /\ dl'[x].phase \in {"200", "304"} => dl'[x].got \in Versions
                /\ dl'[x].cond # Missing => Genuine
                /\ dl'[x].phase = "304" => Genuine
    PROVE  Sound'
<1>0. heap \in [Objects -> Entries]
  BY DEF Books, CacheTypeOK
<1>1. \A o \in Objects : Trusted(heap'[o])
  BY <1>0, LiveTrusted DEF Sound
<1>2. \A x \in Downloads : dl'[x].obj \in Objects => heap'[dl'[x].obj] = heap[dl'[x].obj]
  BY <1>0, LiveFacts
<1>3. FileTimed' /\ Trusted(index)' /\ (\A o \in Objects : Trusted(heap[o])')
  BY <1>1 DEF Sound, FileTimed, Trusted, Genuine
<1>4. ASSUME NEW x \in Downloads, dl'[x].phase # "idle"
      PROVE  Honest(x)'
  <2>1. Genuine' <=> Genuine
    BY DEF Genuine
  <2>2. dl[x].obj \in Objects /\ Honest(x) /\ dl[x].phase # "idle"
    BY <1>4 DEF Books, HasObject, Sound
  <2> QED BY <1>2, <1>4, <2>1, <2>2 DEF Honest
<1>5. \A x \in Downloads : Honest(x)'
  BY <1>4 DEF Honest
<1> QED BY <1>3, <1>5 DEF Sound

LEMMA BeginSound ==
    ASSUME Books, Sound, NEW d \in Downloads, Begin(d)
    PROVE  Sound'
<1> DEFINE e == heap[dl[d].obj]
<1>0. dl[d].phase = "asked" /\ dl \in [Downloads -> Records] /\ Idle.phase = "idle"
  BY DEF Begin, Books, CacheTypeOK, Records, Phases, Tags, Idle
<1>1. Honest(d) /\ \A x \in Downloads : Honest(x)
  BY DEF Sound
<1>2. CASE ~e.stale /\ served' = file.content /\ dl' = [dl EXCEPT ![d] = Idle]
  <2>1. ServedGenuine'
    BY <1>0, <1>1, <1>2, Numbers DEF Honest, Genuine, ServedGenuine
  <2>2. \A x \in Downloads : dl'[x].phase # "idle" => dl'[x] = dl[x]
    BY <1>0, <1>2
  <2> QED BY <1>1, <2>1, <2>2, KeepSound DEF Begin, Honest
<1>3. CASE /\ e.stale /\ served' = NoHit
           /\ dl' = [dl EXCEPT ![d].phase = "sent",
                               ![d].cond = IF file.content = Missing THEN Missing ELSE e.etag]
  <2>1. ServedGenuine'
    BY <1>3, Numbers DEF ServedGenuine
  <2>2. /\ dl'[d].phase = "sent" /\ dl'[d].obj = dl[d].obj
        /\ dl'[d].cond = IF file.content = Missing THEN Missing ELSE e.etag
        /\ \A x \in Downloads \ {d} : dl'[x] = dl[x]
    BY <1>0, <1>3 DEF Records
  <2>3. dl'[d].cond # Missing => Genuine
    BY <1>0, <1>1, <2>2 DEF Honest
  <2> QED BY <1>0, <1>1, <2>1, <2>2, <2>3, KeepSound DEF Begin, Honest
<1> QED BY <1>2, <1>3 DEF Begin

LEMMA FailSound ==
    ASSUME Books, Sound, NEW d \in Downloads, Fail(d)
    PROVE  Sound'
<1>0. dl \in [Downloads -> Records] /\ Idle.phase = "idle"
  BY DEF Books, CacheTypeOK, Records, Phases, Tags, Idle
<1>1. \A x \in Downloads : dl'[x].phase # "idle" => dl'[x] = dl[x]
  BY <1>0 DEF Fail
<1>2. ServedGenuine'
  BY Numbers DEF ServedGenuine, Fail
<1>3. \A x \in Downloads : Honest(x)
  BY DEF Sound
<1> QED BY <1>1, <1>2, <1>3, KeepSound DEF Fail, Honest

LEMMA RespondSound ==
    ASSUME Books, Sound, NEW d \in Downloads, Respond(d)
    PROVE  Sound'
<1>0. dl \in [Downloads -> Records] /\ server \in Versions /\ dl[d].phase = "sent"
  BY DEF Books, CacheTypeOK, Records, Phases, Tags, Respond
<1>1. /\ dl'[d].phase = (IF dl[d].cond = server THEN "304" ELSE "200") /\ dl'[d].got = server
      /\ dl'[d].obj = dl[d].obj /\ dl'[d].cond = dl[d].cond
      /\ \A x \in Downloads \ {d} : dl'[x] = dl[x]
      /\ UNCHANGED <<heap, entry, file, index, now>> /\ served' = NoHit
  BY <1>0 DEF Respond, Records
<1>2. Honest(d) /\ \A x \in Downloads : Honest(x)
  BY DEF Sound
<1>3. Genuine' <=> Genuine
  BY <1>1 DEF Genuine
<1>4. Honest(d)'
  BY <1>0, <1>1, <1>2, <1>3, Numbers DEF Honest
<1>5. \A x \in Downloads \ {d} : Honest(x)'
  BY <1>1, <1>2, <1>3 DEF Honest
<1>6. FileTimed' /\ Trusted(index)' /\ (\A o \in Objects : Trusted(heap[o])')
  BY <1>1 DEF Sound, FileTimed, Trusted, Genuine
<1>7. ServedGenuine'
  BY <1>1, Numbers DEF ServedGenuine
<1> QED BY <1>4, <1>5, <1>6, <1>7 DEF Sound

\* What is trusted stays so when time goes on, or the server's file takes the place of
\* the old one.
LEMMA TrustedLater ==
    ASSUME Books, FileTimed, FileTimed', now' \in Nat, now' >= now,
           \/ Genuine' /\ now' = now /\ (file'.mtime = now \/ file' = file)
           \/ file' = file
    PROVE  \A e \in Entries : Trusted(e) => Trusted(e)'
<1> SUFFICES ASSUME NEW e \in Entries, Trusted(e) PROVE Trusted(e)'
  OBVIOUS
<1>1. e.changed \in Int /\ now \in Nat
  BY Numbers, EntryFields DEF Times, Books, CacheTypeOK
<1>2. CASE Genuine' /\ now' = now /\ (file'.mtime = now \/ file' = file)
  BY <1>1, <1>2 DEF Trusted, Genuine
<1>3. CASE file' = file
  BY <1>1, <1>3 DEF Trusted, Genuine, FileTimed
<1> QED BY <1>2, <1>3

\* A reply is taken: the file is genuine after it, and the entry may be trusted.
LEMMA UpdateSound ==
    ASSUME Books, Sound, NEW d \in Downloads, dl[d].phase # "idle", NEW e \in Entries,
           UpdateEntry(d, e), served' = NoHit, UNCHANGED <<index, now>>,
           Genuine', FileTimed', file'.mtime = now \/ file' = file,
           e.md5 \in Tags, e.changed = file'.mtime
    PROVE  Sound'
<1> DEFINE h == [heap EXCEPT ![dl[d].obj] = e]
<1>0. /\ heap \in [Objects -> Entries] /\ index \in Entries /\ dl \in [Downloads -> Records]
      /\ dl[d].obj \in Objects /\ now \in Nat /\ Idle.phase = "idle"
  BY Numbers DEF Books, CacheTypeOK, Records, Phases, Tags, HasObject, Idle
<1>1. /\ dl' = [dl EXCEPT ![d] = Idle]
      /\ heap' = Live(h, entry', dl') /\ h \in [Objects -> Entries]
  BY <1>0 DEF UpdateEntry
<1>2. \A x \in Entries : Trusted(x) => Trusted(x)'
  BY <1>0, TrustedLater DEF Sound
<1>3. \A o \in Objects : h[o] \in {heap[o], e} /\ heap'[o] \in {h[o], Blank}
  BY <1>0, <1>1, LiveFacts
<1>4. Trusted(e)'
  BY <1>0 DEF Trusted, FileTimed
<1>5. Trusted(Blank)'
  BY <1>2, BlankTrusted, BlankTyped DEF Sound
<1>6. \A o \in Objects : Trusted(heap[o])'
  <2> SUFFICES ASSUME NEW o \in Objects PROVE Trusted(heap[o])'
    OBVIOUS
  <2>1. CASE heap'[o] = heap[o]
    BY <1>0, <1>2, <2>1 DEF Sound, Trusted
  <2>2. CASE heap'[o] = e
    BY <1>4, <2>2 DEF Trusted
  <2>3. CASE heap'[o] = Blank
    BY <1>5, <2>3 DEF Trusted
  <2> QED BY <1>3, <2>1, <2>2, <2>3
<1>7. Trusted(index)'
  BY <1>0, <1>2 DEF Sound, Trusted
<1>8. \A x \in Downloads : Honest(x)'
  <2> SUFFICES ASSUME NEW x \in Downloads, dl'[x].phase # "idle" PROVE Honest(x)'
    BY DEF Honest
  <2>1. dl'[x] = dl[x]
    BY <1>0, <1>1
  <2> QED BY <2>1 DEF Sound, Honest
<1>9. ServedGenuine'
  BY Numbers DEF ServedGenuine
<1> QED BY <1>6, <1>7, <1>8, <1>9 DEF Sound

LEMMA Finish200Sound ==
    ASSUME Books, Sound, NEW d \in Downloads, Finish200(d)
    PROVE  Sound'
<1>1. PICK l \in Lifetimes :
        UpdateEntry(d, [Validated(heap[dl[d].obj], d, now, l) EXCEPT !.md5 = dl[d].got])
  BY DEF Finish200
<1> DEFINE e == [Validated(heap[dl[d].obj], d, now, l) EXCEPT !.md5 = dl[d].got]
<1>2. now \in Times /\ now \in Nat /\ dl[d].phase # "idle" /\ dl[d].got \in Versions
  BY Numbers DEF Books, CacheTypeOK, Times, Finish200, Sound, Honest
<1>3. Validated(heap[dl[d].obj], d, now, l) \in Entries
  BY <1>2, ValidatedTyped
<1>4. e \in Entries /\ e.md5 \in Tags /\ e.changed = now
  BY <1>2, <1>3, ValidatedTyped DEF Entries, Tags, Contents
<1>5. file'.content = dl[d].got /\ file'.mtime = now /\ UNCHANGED <<index, now>> /\ served' = NoHit
  BY DEF Finish200
<1>6. Genuine' /\ FileTimed'
  <2>1. Genuine'
    BY <1>2, <1>5 DEF Genuine, Versions
  <2>2. FileTimed'
    BY <1>2, <1>5, Numbers DEF FileTimed
  <2> QED BY <2>1, <2>2
<1> HIDE DEF e
<1>7. UpdateEntry(d, e)
  BY <1>1 DEF e
<1> QED BY <1>2, <1>4, <1>5, <1>6, <1>7, UpdateSound

LEMMA Finish304Sound ==
    ASSUME Books, Sound, NEW d \in Downloads, Finish304(d)
    PROVE  Sound'
<1>1. PICK l \in Lifetimes : UpdateEntry(d, Validated(heap[dl[d].obj], d, file.mtime, l))
  BY DEF Finish304
<1> DEFINE e == Validated(heap[dl[d].obj], d, file.mtime, l)
<1>2. /\ file.mtime \in Times /\ dl[d].phase = "304" /\ dl[d].obj \in Objects
      /\ file' = file /\ UNCHANGED <<index, now>> /\ served' = NoHit
  BY DEF Books, CacheTypeOK, Finish304, HasObject
<1>3. e \in Entries /\ e.changed = file.mtime /\ e.md5 = heap[dl[d].obj].md5
  BY <1>2, ValidatedTyped
<1>4. e.md5 \in Tags
  BY <1>2, <1>3 DEF Sound, Trusted
<1>5. Genuine' /\ FileTimed'
  BY <1>2 DEF Sound, Honest, Genuine, FileTimed
<1> HIDE DEF e
<1>6. UpdateEntry(d, e)
  BY <1>1 DEF e
<1> QED BY <1>2, <1>3, <1>4, <1>5, <1>6, UpdateSound

LEMMA EvictSound ==
    ASSUME Books, Sound, Evict
    PROVE  Sound'
<1> DEFINE r == Resolved
           h == [r.heap EXCEPT ![r.obj].stale = TRUE]
<1>1. /\ dl' = dl /\ heap' = Live(h, entry', dl) /\ served' = NoHit
      /\ UNCHANGED <<file, index, server, now>>
  BY DEF Evict
<1>2. /\ h \in [Objects -> Entries] /\ \A o \in Objects : Trusted(h[o])
      /\ \A x \in Downloads : dl[x].phase # "idle" =>
           /\ h[dl[x].obj].etag # Missing => Genuine
           /\ ~h[dl[x].obj].stale => Genuine
  BY TakeSound
<1> HIDE DEF r, h
<1>3. \A o \in Objects : Trusted(heap'[o])
  BY <1>1, <1>2, LiveTrusted
<1>4. \A x \in Downloads : dl[x].obj \in Objects => heap'[dl[x].obj] = h[dl[x].obj]
  BY <1>1, <1>2, LiveFacts
<1>5. FileTimed' /\ Trusted(index)' /\ (\A o \in Objects : Trusted(heap[o])')
  BY <1>1, <1>3 DEF Sound, FileTimed, Trusted, Genuine
<1>6. \A x \in Downloads : Honest(x)'
  <2> SUFFICES ASSUME NEW x \in Downloads, dl[x].phase # "idle" PROVE Honest(x)'
    BY <1>1 DEF Honest
  <2>1. dl[x].obj \in Objects /\ Honest(x) /\ (Genuine' <=> Genuine)
    BY <1>1 DEF Books, HasObject, Sound, Genuine
  <2> QED BY <1>1, <1>2, <1>4, <2>1 DEF Honest
<1>7. ServedGenuine'
  BY <1>1, Numbers DEF ServedGenuine
<1> QED BY <1>5, <1>6, <1>7 DEF Sound

\* Time goes on and the server publishes: nothing the cache looks at changes.
LEMMA TickSound ==
    ASSUME Books, Sound, Tick \/ Publish
    PROVE  Sound'
<1>0. /\ now \in Nat /\ now' \in Nat /\ now' >= now /\ index \in Entries
      /\ heap \in [Objects -> Entries]
      /\ UNCHANGED <<heap, dl, file, index>> /\ served' = NoHit
  BY Numbers DEF Tick, Publish, Books, CacheTypeOK
<1>1. FileTimed'
  <2>1. file.mtime \in Int
    BY Numbers DEF Books, CacheTypeOK, Times
  <2> QED BY <1>0, <2>1 DEF Sound, FileTimed
<1>2. \A e \in Entries : Trusted(e) => Trusted(e)'
  BY <1>0, <1>1, TrustedLater DEF Sound
<1>3. Trusted(index)' /\ (\A o \in Objects : Trusted(heap[o])')
  BY <1>0, <1>2 DEF Sound, Trusted
<1>4. \A x \in Downloads : Honest(x)'
  BY <1>0 DEF Sound, Honest, Genuine
<1>5. ServedGenuine'
  BY <1>0, Numbers DEF ServedGenuine
<1> QED BY <1>1, <1>3, <1>4, <1>5 DEF Sound

\* Whoever rewrites the file while no download is under way gives it a time that no
\* entry has recorded.
LEMMA TamperSound ==
    ASSUME Books, Sound, QuietDownloads, Tamper
    PROVE  Sound'
<1>0. /\ file.mtime < now /\ now \in Nat /\ index \in Entries /\ heap \in [Objects -> Entries]
      /\ UNCHANGED <<heap, dl, index, now>> /\ served' = NoHit
      /\ \A d \in Downloads : dl[d].phase = "idle"
  BY Numbers DEF Tamper, Quiet, Books, CacheTypeOK, Idle
<1>1. file'.mtime \in {now, Missing} /\ (file'.mtime = Missing <=> file'.content = Missing)
  <2>1. file \in [content : Contents, mtime : Times]
    BY DEF Books, CacheTypeOK
  <2>2. CASE file' = [content |-> Junk, mtime |-> now]
    BY <1>0, <2>2, Numbers
  <2>3. CASE file' = [file EXCEPT !.mtime = now] /\ file.content # Missing
    BY <1>0, <2>1, <2>3, Numbers
  <2>4. CASE file' = [content |-> Missing, mtime |-> Missing]
    BY <2>4
  <2> QED BY <2>2, <2>3, <2>4 DEF Tamper
<1>2. FileTimed'
  BY <1>0, <1>1, Numbers DEF FileTimed
<1>3. ASSUME NEW e \in Entries, Trusted(e)
      PROVE  Trusted(e)'
  <2>1. e.changed \in Int /\ e.changed < now
    BY <1>0, <1>3, EntryFields, Numbers DEF Trusted, Times
  <2> QED BY <1>0, <1>1, <1>3, <2>1 DEF Trusted
<1>4. Trusted(index)' /\ (\A o \in Objects : Trusted(heap[o])')
  BY <1>0, <1>3 DEF Sound, Trusted
<1>5. \A x \in Downloads : Honest(x)'
  BY <1>0 DEF Honest
<1>6. ServedGenuine'
  BY <1>0, Numbers DEF ServedGenuine
<1> QED BY <1>2, <1>4, <1>5, <1>6 DEF Sound

LEMMA SaveNowSound ==
    ASSUME Books, Sound, SaveNow
    PROVE  Sound'
<1>0. /\ index' = Saved /\ UNCHANGED <<heap, entry, dl, file, now>> /\ served' = NoHit
  BY DEF SaveNow
<1>1. Saved = Blank \/ (entry \in Objects /\ Saved = heap[entry])
  BY BlankTyped DEF Saved, Books, CacheTypeOK
<1>2. Trusted(Saved)
  BY <1>1, BlankTrusted DEF Sound
<1>3. FileTimed' /\ Trusted(index)' /\ (\A o \in Objects : Trusted(heap[o])')
  BY <1>0, <1>2 DEF Sound, FileTimed, Trusted, Genuine
<1>4. (\A x \in Downloads : Honest(x)') /\ ServedGenuine'
  BY <1>0, Numbers DEF Sound, Honest, Genuine, ServedGenuine
<1> QED BY <1>3, <1>4 DEF Sound

LEMMA RestartSound ==
    ASSUME Books, Sound, Restart
    PROVE  Sound'
<1>0. /\ heap' = [o \in Objects |-> IF o = entry' THEN index ELSE Blank]
      /\ dl' = [d \in Downloads |-> Idle] /\ UNCHANGED <<file, index, now>> /\ served' = NoHit
  BY DEF Restart
<1>1. \A o \in Objects : Trusted(heap'[o])
  BY <1>0, BlankTrusted DEF Sound
<1>2. FileTimed' /\ Trusted(index)' /\ (\A o \in Objects : Trusted(heap[o])')
  BY <1>0, <1>1 DEF Sound, FileTimed, Trusted, Genuine
<1>3. (\A x \in Downloads : Honest(x)') /\ ServedGenuine'
  BY <1>0, Numbers DEF Honest, Idle, ServedGenuine
<1> QED BY <1>2, <1>3 DEF Sound

LEMMA StepSound ==
    ASSUME Books, Sound, QuietDownloads, [CacheNext]_cacheVars
    PROVE  Sound'
<1>1. CASE CacheNext
  BY <1>1, TickSound, TamperSound, EvictSound, SaveNowSound, RestartSound, AskSound, BeginSound,
     RespondSound, FailSound, Finish200Sound, Finish304Sound DEF CacheNext
<1>2. CASE UNCHANGED cacheVars
  BY <1>2 DEF cacheVars, Sound, FileTimed, Trusted, Honest, Genuine, ServedGenuine
<1> QED BY <1>1, <1>2

LEMMA InitSound == CacheInit => Sound
<1> SUFFICES ASSUME CacheInit PROVE Sound
  OBVIOUS
<1>1. Books
  BY InitBooks
<1>2. FileTimed
  BY Numbers DEF CacheInit, FileTimed
<1>3. Trusted(index) /\ \A o \in Objects : Trusted(heap[o])
  BY <1>1, <1>2, BlankTrusted, BlankTyped DEF CacheInit
<1>4. \A d \in Downloads : Honest(d)
  BY DEF CacheInit, Honest, Idle
<1>5. ServedGenuine
  BY Numbers DEF CacheInit, ServedGenuine
<1> QED BY <1>2, <1>3, <1>4, <1>5 DEF Sound

-----------------------------------------------------------------------------
\* A fresh entry is in the index or will be put there, and nothing brings an evicted
\* entry back but an answer of the server (HttpMetaCache.cpp: evictEntry(), SaveNow(),
\* Load(); MetaCacheSink::finalizeCache()).
THEOREM IndexAlwaysFollows == CacheSpec => []IndexFollows
<1>1. Books => IndexFollows
  BY DEF Books, IndexFollows
<1> QED BY <1>1, AlwaysBooks, PTL

\* While nobody else writes the file under a download, a hit is a file the server sent
\* (HttpMetaCache::resolveEntry(), MetaCacheSink::initCache()).
THEOREM HitsAreGenuine == ASSUME QuietDownloads PROVE CacheSpec => []ServedGenuine
<1>1. Books /\ Sound /\ [CacheNext]_cacheVars => Sound'
  BY StepSound
<1>2. Sound => ServedGenuine
  BY DEF Sound
<1> QED BY <1>1, <1>2, InitSound, AlwaysBooks, PTL DEF CacheSpec
================================================================================
