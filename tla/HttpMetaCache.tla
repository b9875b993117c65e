--------------------------- MODULE HttpMetaCache ----------------------------
(* net/HttpMetaCache.cpp together with the part of net/MetaCacheSink.cpp     *)
(* that asks and updates it: one resource of one base, its file on disk, the *)
(* downloads that refresh it and the index file that survives a crash.       *)
(* Resources do not influence each other; the index holds all of them.       *)
EXTENDS Integers, FiniteSets

CONSTANTS Downloads,       \* concurrent users of the resource
          MaxVersion,      \* bound: versions the server publishes
          MaxTime,         \* bound: ticks of the clock
          Lifetimes,       \* the cache lifetimes the replies carry
          QuietDownloads   \* does nobody touch the file while a download is under way

Forever == MaxTime + 1     \* MakeEternal
Junk == 0                  \* content the server never sent
Missing == -1              \* no file; no time stamp

ASSUME DownloadsAssumption == IsFiniteSet(Downloads)
ASSUME CacheBounds ==
    /\ MaxVersion \in Nat \ {0} /\ MaxTime \in Nat
    /\ Lifetimes \subseteq 0..Forever
    /\ QuietDownloads \in BOOLEAN

VARIABLES
    heap,        \* the MetaEntry objects, shared by cache and downloads
    entry,       \* the object in entry_list, or NoObject
    dl,          \* the downloads
    file,        \* the file: content and time of last change
    index,       \* what the index file says of the entry, or NoEntry
    dirty,       \* saveBatchingTimer is running
    server,      \* the version the server publishes
    now,         \* the clock
    evicted,     \* history: "no"; "evicted"; "saved", evicted and SaveNow() ran since;
                 \* "revived", evicted and then confirmed by a 304
    served       \* history: content of the file when the last call was a hit

cacheVars == <<heap, entry, dl, file, index, dirty, server, now, evicted, served>>

Objects == 1..(Cardinality(Downloads) + 2)  \* the entry, one per download, a new one
NoObject == 0
Versions == 1..MaxVersion

Blank == [md5 |-> Missing, etag |-> Missing, changed |-> Missing, life |-> 0, stale |-> TRUE]
NoEntry == Blank
Idle == [phase |-> "idle", obj |-> NoObject, cond |-> Missing, got |-> Missing]
NoHit == Missing - 1

CacheInit == /\ heap = [o \in Objects |-> Blank]
             /\ entry = NoObject
             /\ dl = [d \in Downloads |-> Idle]
             /\ file = [content |-> Missing, mtime |-> Missing]
             /\ index = NoEntry
             /\ dirty = FALSE
             /\ server = 1
             /\ now = 0
             /\ evicted = "no"
             /\ served = NoHit

-----------------------------------------------------------------------------
(* The world around the cache.                                               *)

\* Nobody keeps an object nothing refers to.
Live(h, e, ds) == LET held == {e} \union {ds[d].obj : d \in Downloads}
                  IN  [o \in Objects |-> IF o \in held THEN h[o] ELSE Blank]

Quiet == QuietDownloads => \A d \in Downloads : dl[d] = Idle

Tick == /\ now < MaxTime /\ now' = now + 1
        /\ served' = NoHit
        /\ UNCHANGED <<heap, entry, dl, file, index, dirty, server, evicted>>

Publish == /\ server < MaxVersion /\ server' = server + 1
           /\ served' = NoHit
           /\ UNCHANGED <<heap, entry, dl, file, index, dirty, now, evicted>>

\* Someone else rewrites, touches or removes the file; two writes never have
\* the same time stamp.
Tamper == /\ file.mtime < now
          /\ Quiet
          /\ \/ file' = [content |-> Junk, mtime |-> now]
             \/ file' = [file EXCEPT !.mtime = now] /\ file.content # Missing
             \/ file' = [content |-> Missing, mtime |-> Missing]
          /\ served' = NoHit
          /\ UNCHANGED <<heap, entry, dl, index, dirty, server, now, evicted>>

\* The server answers a conditional request that names its version with 304.
Respond(d) == /\ dl[d].phase = "sent"
              /\ dl' = [dl EXCEPT ![d].phase = IF dl[d].cond = server THEN "304" ELSE "200",
                                  ![d].got = server]
              /\ served' = NoHit
              /\ UNCHANGED <<heap, entry, file, index, dirty, server, now, evicted>>

-----------------------------------------------------------------------------
(* resolveEntry()                                                            *)

Held == {entry} \union {dl[d].obj : d \in Downloads}
FreeObject == CHOOSE o \in Objects : o \notin Held

\* isExpired(): the file has outlived the lifetime of its entry.
Expired(e) == e.life # Forever /\ e.life <= now - file.mtime

\* Faulty variant of Keeps: a changed file is not hashed.
KeepsUnhashed(e) == file.content # Missing /\ ~Expired(e)

\* The entry survives the checks of resolveEntry(): the file is there, it did
\* not change or still has the recorded hash, the entry is not too old. No caller
\* names the tag it expects, so the check of expected_etag never fails.
Keeps(e) == /\ file.content # Missing
            /\ file.mtime = e.changed \/ file.content = e.md5
            /\ ~Expired(e)

\* Faulty variant of Restamps: the new time stamp is not saved.
RestampsSilently(e) == FALSE

\* A changed file with the recorded hash: its time stamp is recorded and saved.
Restamps(e) == /\ file.content # Missing
               /\ file.mtime # e.changed /\ file.content = e.md5

\* What resolveEntry() leaves: the object it returns, the entry of the cache,
\* and the objects.  An entry that fails a check is dropped for a new, stale one.
Resolved ==
    LET kept == entry # NoObject /\ Keeps(heap[entry])
    IN  IF kept THEN [obj |-> entry, entry |-> entry,
                      heap |-> [heap EXCEPT ![entry].changed = file.mtime]]
        ELSE [obj |-> FreeObject, entry |-> NoObject,
              heap |-> [heap EXCEPT ![FreeObject] = Blank]]

SavesRestamp == entry # NoObject /\ Restamps(heap[entry])

\* A caller asks for the entry to make a download of it; most callers mark the
\* entry stale at once, to have the server asked (BaseEntity.cpp:132).
Ask(d, force) ==
    /\ dl[d] = Idle
    /\ LET r == Resolved IN
       /\ dl' = [dl EXCEPT ![d] = [Idle EXCEPT !.phase = "asked", !.obj = r.obj]]
       /\ entry' = r.entry
       /\ heap' = Live(IF force THEN [r.heap EXCEPT ![r.obj].stale = TRUE] ELSE r.heap,
                       entry', dl')
    /\ dirty' = (dirty \/ SavesRestamp)
    /\ served' = NoHit
    /\ UNCHANGED <<file, index, server, now, evicted>>

\* initCache(), when the download is started: a fresh entry is a hit, a stale
\* one is requested, with its tag when there is a file.
Begin(d) ==
    /\ dl[d].phase = "asked"
    /\ LET e == heap[dl[d].obj] IN
       IF ~e.stale
       THEN /\ served' = file.content
            /\ dl' = [dl EXCEPT ![d] = Idle]
       ELSE /\ served' = NoHit
            /\ dl' = [dl EXCEPT ![d].phase = "sent",
                                ![d].cond = IF file.content = Missing THEN Missing ELSE e.etag]
    /\ heap' = Live(heap, entry, dl')
    /\ UNCHANGED <<entry, file, index, dirty, server, now, evicted>>

\* The fields finalizeCache() sets for every reply; an eternal entry stays so.
Validated(e, d, mtime, l) ==
    [e EXCEPT !.etag = dl[d].got, !.changed = mtime, !.stale = FALSE,
              !.life = IF e.life = Forever THEN Forever ELSE l]

\* updateEntry(): the object of the download becomes the entry.
UpdateEntry(d, e) ==
    /\ dl' = [dl EXCEPT ![d] = Idle]
    /\ entry' = dl[d].obj
    /\ heap' = Live([heap EXCEPT ![dl[d].obj] = e], entry', dl')
    /\ dirty' = TRUE

\* finalizeCache() of a reply with a body, which is the file from now on.
Finish200(d) ==
    /\ dl[d].phase = "200" /\ file.mtime < now
    /\ file' = [content |-> dl[d].got, mtime |-> now]
    /\ \E l \in Lifetimes :
           UpdateEntry(d, [Validated(heap[dl[d].obj], d, now, l) EXCEPT !.md5 = dl[d].got])
    /\ evicted' = "no" /\ served' = NoHit
    /\ UNCHANGED <<index, server, now>>

\* finalizeCache() of a 304: the file gets no body and is not hashed.
Finish304(d) ==
    /\ dl[d].phase = "304"
    /\ \E l \in Lifetimes : UpdateEntry(d, Validated(heap[dl[d].obj], d, file.mtime, l))
    /\ evicted' = IF evicted = "no" THEN "no" ELSE "revived"
    /\ served' = NoHit
    /\ UNCHANGED <<file, index, server, now>>

\* The download fails or is aborted: the entry is left as it is.
Fail(d) == /\ dl[d].phase \in {"sent", "200", "304"}
           /\ dl' = [dl EXCEPT ![d] = Idle]
           /\ heap' = Live(heap, entry, dl')
           /\ served' = NoHit
           /\ UNCHANGED <<entry, file, index, dirty, server, now, evicted>>

\* evictEntry() of the entry resolveEntry() returns (AssetUpdateTask.cpp:71-73).
Evict == /\ LET r == Resolved IN
            /\ entry' = r.entry
            /\ heap' = Live([r.heap EXCEPT ![r.obj].stale = TRUE], entry', dl)
         /\ dirty' = TRUE
         /\ evicted' = "evicted" /\ served' = NoHit
         /\ UNCHANGED <<dl, file, index, server, now>>

-----------------------------------------------------------------------------
(* The index file.                                                           *)

Saved == IF entry = NoObject \/ heap[entry].stale THEN NoEntry ELSE heap[entry]

\* SaveNow(), when saveBatchingTimer fires or the program ends.
SaveNow == /\ dirty /\ dirty' = FALSE
           /\ index' = Saved
           /\ evicted' = IF evicted = "evicted" THEN "saved" ELSE evicted
           /\ served' = NoHit
           /\ UNCHANGED <<heap, entry, dl, file, server, now>>

\* The program ends, with or without SaveNow(), and runs Load() when it starts
\* again: "presumed innocent until closer examination".
Restart == /\ dl' = [d \in Downloads |-> Idle]
           /\ entry' = IF index = NoEntry THEN NoObject ELSE 1
           /\ heap' = [o \in Objects |-> IF o = entry' THEN index ELSE Blank]
           /\ dirty' = FALSE
           /\ evicted' = IF evicted = "evicted" /\ index # NoEntry THEN "no" ELSE evicted
           /\ served' = NoHit
           /\ UNCHANGED <<file, index, server, now>>

CacheNext == \/ Tick \/ Publish \/ Tamper \/ Evict \/ SaveNow \/ Restart
             \/ \E d \in Downloads : \/ \E force \in BOOLEAN : Ask(d, force)
                                     \/ Begin(d) \/ Respond(d) \/ Fail(d)
                                     \/ Finish200(d) \/ Finish304(d)

CacheSpec == CacheInit /\ [][CacheNext]_cacheVars

-----------------------------------------------------------------------------
Contents == Versions \union {Junk, Missing}
Times == 0..MaxTime \union {Missing}
Entries == [md5 : Contents, etag : Versions \union {Missing}, changed : Times,
            life : 0..Forever, stale : BOOLEAN]

\* Every field keeps to its range: an entry never records a hash or a tag the
\* server did not send.
CacheTypeOK == /\ heap \in [Objects -> Entries]
               /\ entry \in Objects \union {NoObject}
               /\ dl \in [Downloads -> [phase : {"idle", "asked", "sent", "200", "304"},
                                        obj : Objects \union {NoObject},
                                        cond : Versions \union {Missing},
                                        got : Versions \union {Missing}]]
               /\ file \in [content : Contents, mtime : Times]
               /\ index \in Entries
               /\ dirty \in BOOLEAN /\ evicted \in {"no", "evicted", "saved", "revived"}
               /\ server \in Versions /\ now \in 0..MaxTime
               /\ served \in Contents \union {NoHit}

\* A hit never hands out a file the server did not send, whoever rewrote it and
\* whatever index a restart loaded (resolveEntry(), "if the file changed, check
\* md5sum").
ServedGenuine == served \notin {Junk, Missing}

\* A fresh entry is in the index file, as it is, or will be put there: a restart
\* loses what was saved for no other reason than the 30 seconds of batching.
FreshIsSaved == entry # NoObject /\ ~heap[entry].stale /\ ~dirty => index = heap[entry]

\* An evicted entry is not fresh again until the server was asked, whichever
\* downloads were under way; a restart keeps to that once the index is saved.
\* (A download that was handed an older entry object may still take the file.)
EvictionSticks == evicted \in {"evicted", "saved"} /\ entry # NoObject => heap[entry].stale

\* The entries keep their types, the index follows them, and neither a restart nor
\* a download under way brings back what was evicted.
IndexFollows == CacheTypeOK /\ FreshIsSaved /\ EvictionSticks

\* The comment of evictEntry(), "evict selected entry from cache": what was
\* evicted is not used before its body was fetched again.
EvictionFetches == evicted # "no" /\ entry # NoObject => heap[entry].stale
=============================================================================
