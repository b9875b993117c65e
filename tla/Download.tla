------------------------------ MODULE Download ------------------------------
(* net/Download.cpp with its sinks (FileSink, MetaCacheSink, ByteArraySink): *)
(* one download, the QNetworkReply it waits for and the file it writes.  A   *)
(* reply delivers readyRead, then at most one error, then finished; all      *)
(* slots run on the GUI thread.                                              *)
EXTENDS Integers, Sequences

CONSTANTS Faults,        \* what the disk may refuse: "path", "open", "write", "commit"
          MaxBody,       \* bound: chunks of a body
          MaxRedirects,  \* bound: redirects the server answers with
          MaxStarts,     \* bound: calls of start()
          MaxAborts      \* bound: calls of abort()

ASSUME FaultAssumption == Faults \subseteq {"path", "open", "write", "commit"}
ASSUME DownloadBounds == /\ MaxBody \in Nat /\ MaxRedirects \in Nat
                         /\ MaxStarts \in Nat /\ MaxAborts \in Nat

VARIABLES
    sound,     \* in this behaviour a sink that is opened can be opened and
               \* written, and no abort meets a redirect
    m_sink,    \* which sink: "file", "cache" or "bytes"
    acceptLocal,  \* Option::AcceptLocalFiles
    m_state,   \* Task::m_state, which the slots also use as a result code
    m_reply,   \* "none", "open", "errored" (finished is due) or "done"
    size,      \* chunks the reply carries; NoFile if its status is not 200 or 203
    m_output_file,  \* "null", "unopened", "open" or "cancelled"
    wroteAnyData,
    got,       \* chunks in the save file or the byte array
    disk,      \* the target file: "absent", "empty", "old", "new" or "torn"
    stale,     \* MetaEntry::stale of the cache entry
    emitted,   \* terminal signals since the last start()
    crashed,   \* a null pointer was used
    redirects, starts, aborts   \* counters of the bounds

sinkVars == <<m_output_file, wroteAnyData, got, disk, stale, crashed>>
replyVars == <<m_reply, size>>
counters == <<redirects, starts, aborts>>
setup == <<sound, m_sink, acceptLocal>>
vars == <<setup, m_state, replyVars, sinkVars, emitted, counters>>

Ends == {"Succeeded", "Failed", "AbortedByUser"}
States == {"Inactive", "Running"} \union Ends
NoFile == -1
OnDisk == m_sink # "bytes"
Refused == IF sound THEN {} ELSE Faults

Init == /\ sound \in BOOLEAN
        /\ m_sink \in {"file", "cache", "bytes"}
        /\ acceptLocal \in BOOLEAN
        /\ m_state = "Inactive"
        /\ m_reply = "none" /\ size = NoFile
        /\ m_output_file = "null"
        /\ wroteAnyData = FALSE
        /\ got = 0
        /\ disk \in {"absent", "empty", "old"}
        /\ stale \in BOOLEAN
        /\ ~stale => m_sink = "cache" /\ disk # "absent"
        /\ emitted = << >>
        /\ crashed = FALSE
        /\ redirects = 0 /\ starts = 0 /\ aborts = 0

-----------------------------------------------------------------------------
(* Sinks.                                                                    *)

\* Faulty variants of OpenSink: the chunks of the previous reply are kept; the
\* save file is left for the first write to create.
OpenSinkAppending ==
    /\ m_output_file' = (IF OnDisk THEN "open" ELSE "null")
    /\ UNCHANGED <<wroteAnyData, got, disk, stale, crashed>>
OpenSinkLazily ==
    /\ wroteAnyData' = (wroteAnyData /\ ~OnDisk)
    /\ got' = 0
    /\ UNCHANGED <<m_output_file, disk, stale, crashed>>

\* init(): a new save file or an empty array, and the validators reset.
OpenSink == /\ m_output_file' = (IF OnDisk THEN "open" ELSE "null")
            /\ wroteAnyData' = (wroteAnyData /\ ~OnDisk)
            /\ got' = 0
            /\ UNCHANGED <<disk, stale, crashed>>

\* abort(): cancelWriting() of the save file, which has to be there.
AbortSink == /\ crashed' = (OnDisk /\ m_output_file = "null")
             /\ m_output_file' = (IF OnDisk /\ ~crashed' THEN "cancelled" ELSE m_output_file)
             /\ got' = 0
             /\ UNCHANGED <<wroteAnyData, disk, stale>>

\* hasLocalData(): there is a file and it is not empty; a byte array never has any.
HasLocalData == OnDisk /\ disk \notin {"absent", "empty"}

\* The target file when a body of n chunks is complete.
Whole(n) == IF n = 0 THEN "empty" ELSE "new"

-----------------------------------------------------------------------------
(* What the slots are made of.                                               *)

\* executeTask() entered in state s; "left" is what m_reply holds and "prior" what
\* was emitted if nothing new comes: an aborted download, a cache hit, a sink that
\* cannot be opened, a request.  emitFailed() and emitAborted() do nothing here:
\* m_state is not Running when they are called.
ExecuteTask(s, left, prior) ==
    \/ /\ s = "AbortedByUser"
       /\ m_state' = s /\ m_reply' = left /\ emitted' = prior
       /\ UNCHANGED <<size, sinkVars>>
    \/ /\ s # "AbortedByUser" /\ ~stale
       /\ m_state' = "Succeeded" /\ m_reply' = left
       /\ emitted' = Append(prior, "Succeeded")
       /\ UNCHANGED <<size, sinkVars>>
    \/ /\ s # "AbortedByUser" /\ stale /\ OnDisk
       /\ \E f \in Refused \intersect {"path", "open"} :
            m_output_file' = IF f = "open" THEN "unopened" ELSE m_output_file
       /\ m_state' = "Failed" /\ m_reply' = left /\ emitted' = prior
       /\ UNCHANGED <<size, wroteAnyData, got, disk, stale, crashed>>
    \/ /\ s # "AbortedByUser" /\ stale
       /\ OpenSink
       /\ m_state' = "Running" /\ m_reply' = "open" /\ emitted' = prior
       /\ size' \in NoFile..MaxBody

\* The state downloadError() sets for an error other than a cancellation.
ErrorState == IF acceptLocal /\ HasLocalData THEN "Succeeded" ELSE "Failed"

\* Faulty variants of Conclude: the reply is kept; nothing is emitted.
ConcludeKeepingReply(s) ==
    /\ AbortSink
    /\ m_state' = s
    /\ emitted' = IF crashed' THEN emitted ELSE Append(emitted, s)
    /\ UNCHANGED replyVars
ConcludeSilently(s) ==
    /\ AbortSink
    /\ m_state' = s
    /\ m_reply' = "none"
    /\ UNCHANGED <<emitted, size>>

\* The ends of downloadFinished() that give the received data up.
Conclude(s) == /\ AbortSink
               /\ m_state' = s
               /\ m_reply' = "none"
               /\ emitted' = IF crashed' THEN emitted ELSE Append(emitted, s)
               /\ UNCHANGED size

\* The rest of downloadFinished() in state Running: the remaining chunks are
\* written, then finalize() asks the validators, commits and updates the entry.
\* A write that fails now leaves finalize() without its save file.
Finalize ==
    LET rest == IF size > got THEN size - got ELSE 0
        keep == OnDisk => size # NoFile \/ wroteAnyData \/ rest > 0
    IN  \/ /\ keep   \* a validator objects, or the commit fails
           /\ Conclude("Failed")
        \/ /\ disk' = (IF OnDisk /\ keep
                       THEN IF got + rest = size THEN Whole(size) ELSE "torn"
                       ELSE disk)
           /\ stale' = (m_sink # "cache")
           /\ m_output_file' = "null"
           /\ wroteAnyData' = (wroteAnyData \/ (OnDisk /\ rest > 0))
           /\ got' = got + rest
           /\ m_state' = "Succeeded"
           /\ m_reply' = "none"
           /\ emitted' = Append(emitted, "Succeeded")
           /\ UNCHANGED <<size, crashed>>
        \/ /\ OnDisk /\ "write" \in Refused /\ rest > 0
           /\ crashed' = TRUE
           /\ m_output_file' = "null" /\ wroteAnyData' = FALSE /\ got' = 0
           /\ UNCHANGED <<m_state, replyVars, disk, stale, emitted>>

\* downloadFinished() in state s, with the kind of Location header received:
\* a redirect comes first, whatever the state; an invalid one is an error.
DownloadFinished(s, location) ==
    IF location = "valid"
    THEN /\ redirects < MaxRedirects
         /\ ~sound \/ (aborts = 0 /\ s # "AbortedByUser")
         /\ redirects' = redirects + 1
         /\ ExecuteTask(s, "done", emitted)
    ELSE LET state == IF location = "invalid" THEN ErrorState ELSE s
         IN  /\ UNCHANGED redirects
             /\ \/ state \in Ends /\ Conclude(state)
                \/ state = "Running" /\ Finalize

Locations == {"absent", "invalid", "valid"}

-----------------------------------------------------------------------------
(* The slots.                                                                *)

\* Task::start() by the NetJob, which starts a download again only after it
\* reported an end.
Start == /\ ~crashed
         /\ starts < MaxStarts /\ starts' = starts + 1
         /\ starts = 0 \/ emitted # << >>
         /\ m_state # "Running"
         /\ ExecuteTask("Running", m_reply, << >>)
         /\ UNCHANGED <<redirects, aborts>>

\* downloadReadyRead(): data that comes in another state is not read.
ReadyRead ==
    /\ ~crashed /\ m_reply = "open" /\ m_state = "Running" /\ got < size
    /\ \/ /\ wroteAnyData' = OnDisk /\ got' = got + 1
          /\ UNCHANGED <<m_state, m_output_file>>
       \/ /\ OnDisk /\ "write" \in Refused
          /\ wroteAnyData' = FALSE /\ got' = 0
          /\ m_output_file' = "null"
          /\ m_state' = "Failed"
    /\ UNCHANGED <<replyVars, disk, stale, crashed, emitted, counters>>

\* downloadError() for an error of the network or an HTTP error status.
ReplyError ==
    /\ ~crashed /\ m_reply = "open"
    /\ m_reply' = "errored"
    /\ m_state' = ErrorState
    /\ UNCHANGED <<size, sinkVars, emitted, counters>>

\* finished() of the reply.
ReplyFinished ==
    /\ ~crashed /\ m_reply \in {"open", "errored"}
    /\ \E location \in Locations : DownloadFinished(m_state, location)
    /\ UNCHANGED <<starts, aborts>>

\* abort() by the NetJob that waits for this download.  With a reply in flight
\* its abort() runs downloadError() and downloadFinished() before it returns.
Abort ==
    /\ ~crashed /\ aborts < MaxAborts /\ aborts' = aborts + 1
    /\ emitted = << >>
    /\ \/ /\ m_reply = "open"
          /\ \E location \in Locations : DownloadFinished("AbortedByUser", location)
       \/ /\ m_reply = "none"
          /\ m_state' = "AbortedByUser"
          /\ UNCHANGED <<replyVars, sinkVars, emitted, redirects>>
       \/ /\ m_reply \in {"errored", "done"}
          /\ UNCHANGED <<m_state, replyVars, sinkVars, emitted, redirects>>
    /\ UNCHANGED starts

Next == /\ UNCHANGED setup
        /\ \/ Start
           \/ ReadyRead
           \/ ReplyError
           \/ ReplyFinished
           \/ Abort

Spec == Init /\ [][Next]_vars

\* A reply is finished some day (the network stack has timeouts of its own);
\* nobody has to start or to abort a download.
FairSpec == Spec /\ WF_vars(UNCHANGED setup /\ ReplyFinished)

-----------------------------------------------------------------------------
(* Correctness.                                                              *)

\* Every variable has the type its member has in the source.
TypeOK == /\ sound \in BOOLEAN
          /\ m_sink \in {"file", "cache", "bytes"}
          /\ acceptLocal \in BOOLEAN
          /\ m_state \in States
          /\ m_reply \in {"none", "open", "errored", "done"}
          /\ size \in NoFile..MaxBody
          /\ m_output_file \in {"null", "unopened", "open", "cancelled"}
          /\ wroteAnyData \in BOOLEAN
          /\ got \in 0..MaxBody
          /\ disk \in {"absent", "empty", "old", "new", "torn"}
          /\ stale \in BOOLEAN
          /\ emitted \in Seq(Ends)
          /\ crashed \in BOOLEAN
          /\ redirects \in 0..MaxRedirects
          /\ starts \in 0..MaxStarts
          /\ aborts \in 0..MaxAborts

\* However many redirects, errors and aborts meet, a start is answered by at
\* most one terminal signal, it is the one of the state the download is left
\* in, and no reply is in flight any more.
ReportedOnce == /\ Len(emitted) <= 1
                /\ emitted # << >> => /\ m_state = emitted[1]
                                      /\ m_reply \in {"none", "done"}

\* The target file is replaced only by the complete body of the last reply and
\* only together with the report of success.
DiskIntact == [][disk' # disk => disk' = Whole(size) /\ emitted' = <<"Succeeded">>]_vars

\* Success hands data over: the target file is there unless the server sent
\* none, a byte array has the whole body, a cache entry that is not stale has
\* its file.
SuccessHasData ==
    /\ emitted = <<"Succeeded">> =>
         \/ size = NoFile
         \/ IF OnDisk THEN disk # "absent" ELSE got = size
    /\ ~stale /\ size # NoFile => disk # "absent"

\* A failed or aborted download leaves no partial data in the byte array.
NoPartialArray ==
    m_sink = "bytes" /\ emitted \in {<<"Failed">>, <<"AbortedByUser">>} => got = 0

\* The save file is there whenever a slot uses it: only a failed write, or a
\* sink that could not be opened, leaves a slot without one.
NoNullUse == sound => ~crashed

\* What is in the target file, the array and the cache entry when a download
\* has reported, or still works, is what its report says.
BodySound == TypeOK /\ SuccessHasData /\ NoPartialArray /\ NoNullUse

\* A started download reports its end, unless its sink cannot be opened (then
\* emitFailed() is called in state Failed and does nothing, Download.cpp:95) or
\* an abort meets a redirect, which is followed before the state is looked at.
Reports == (sound /\ starts > 0 /\ emitted = << >>) ~> (emitted # << >>)
=============================================================================
