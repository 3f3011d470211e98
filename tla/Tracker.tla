------------------------------- MODULE Tracker -------------------------------
(***************************************************************************)
(* The gateway's statistics (llm-gateway: stats.go, StartPersistence and   *)
(* resetStats).  A request that ends is recorded under its endpoint and    *)
(* its responsibility, a failed one also in a gateway-wide series of       *)
(* errors; every series has a lock of its own.  A ticker and the reset     *)
(* write all of them to one file by way of one temporary name.  Tokens are *)
(* added where requests are counted and are left out; durations and        *)
(* outcomes are series like the errors, without a total.                   *)
(***************************************************************************)
EXTENDS Integers, Sequences, FiniteSets

CONSTANTS
    Order,         \* series in the order of Save: endpoints, responsibilities, Errors
    Errors,        \* the series that always exists
    Endpoints,     \* series of the endpoints map; the others, but Errors, are responsibilities
    Works,         \* what a request is recorded in: its endpoint, then its series in turn
    Recorders, Savers,  \* goroutines; the savers are "ticker" and "reset"
    Hour, Day, Keep,    \* the windows of the counters and of prune
    MaxClock, MaxRequests, MaxResets, MaxKills, MaxSaveFails

VARIABLES
    clock,
    known,    \* series that exist
    series,   \* per series: events, total number of requests
    rec,      \* recorders: pc, entered yet, series still to be recorded, time taken
    save,     \* savers: pc, series still to be visited, what was read, open file
    files,    \* contents of the files; the last one written wins
    tmp, path,  \* the files under the two names, 0 for none
    requests, resets, kills, saveFails,
    log,      \* history: every event of a series since it was cleared or loaded
    overlap,  \* history: two savers were under way at once
    fatal     \* history: the runtime found a map read during a map write

memVars == <<known, series, log>>
diskVars == <<files, tmp, path>>
boundVars == <<clock, requests, resets, kills, saveFails>>
trackerVars == <<memVars, diskVars, boundVars, rec, save, overlap, fatal>>

Keys == {Order[i] : i \in DOMAIN Order}

\* No series has the name of the two contents below that are no save.
ASSUME TrackerAssumption ==
    /\ Hour \in Nat /\ Day \in Nat /\ Keep \in Nat /\ Hour < Day /\ Day < Keep
    /\ Errors \in Keys /\ {"blank", "mixed"} \cap Keys = {}
    /\ Works \subseteq Seq(Keys) /\ \A work \in Works : Len(work) > 1
    /\ IsFiniteSet(Savers) /\ "reset" \in Savers

Empty == [events |-> <<>>, total |-> 0]
NoRec == [pc |-> "idle", entered |-> FALSE, todo |-> <<>>, now |-> 0]
NoSave == [pc |-> "idle", todo |-> {}, state |-> [k \in {} |-> Empty], fd |-> 0]
Blank == [k \in {"blank"} |-> Empty]
Mixed == [k \in {"mixed"} |-> Empty]

TrackerInit ==
    /\ clock = 0 /\ known = {Errors} /\ series = [k \in Keys |-> Empty]
    /\ rec = [r \in Recorders |-> NoRec] /\ save = [p \in Savers |-> NoSave]
    /\ files = [f \in 1 .. Cardinality(Savers) + 1 |-> Blank] /\ tmp = 0 /\ path = 0
    /\ requests = 0 /\ resets = 0 /\ kills = 0 /\ saveFails = 0
    /\ log = [k \in Keys |-> <<>>] /\ overlap = FALSE /\ fatal = FALSE

-----------------------------------------------------------------------------
(* Series.                                                                  *)

\* Mutant of Prune: what is a day old goes.
PruneDay(events, now) ==
    LET young == {i \in DOMAIN events : now - events[i] < Day}
    IN  IF young = {} THEN <<>>
        ELSE SubSeq(events, CHOOSE i \in young : \A j \in young : i <= j, Len(events))

\* prune: the events before the first one that is young enough.
Prune(events, now) ==
    LET young == {i \in DOMAIN events : now - events[i] <= Keep}
    IN  IF young = {} THEN <<>>
        ELSE SubSeq(events, CHOOSE i \in young : \A j \in young : i <= j, Len(events))

\* windowSums and windowCount: from the end to the first event that is too old.
WindowSums(events, window) ==
    LET stop == {i \in DOMAIN events : clock - events[i] > window}
    IN  Len(events) - (IF stop = {} THEN 0 ELSE CHOOSE i \in stop : \A j \in stop : j <= i)

\* Snapshot of one series.
Snapshot(k) == [hour |-> WindowSums(series[k].events, Hour), day |-> WindowSums(series[k].events, Day),
                total |-> series[k].total]

-----------------------------------------------------------------------------
(* Recording.                                                               *)

\* ServeHTTP: IncrPending looks up the endpoint when the request comes in.
Arrive(r, work) ==
    /\ rec[r] = NoRec /\ requests < MaxRequests /\ requests' = requests + 1
    /\ rec' = [rec EXCEPT ![r] = [NoRec EXCEPT !.pc = "get", !.todo = work]]
    /\ UNCHANGED <<clock, resets, kills, saveFails, memVars, diskVars, save, overlap, fatal>>

\* time.Now(), before the lock of the series.
Stamp(r) ==
    /\ rec[r].pc = "stamp"
    /\ rec' = [rec EXCEPT ![r].pc = IF Head(rec[r].todo) = Errors THEN "append" ELSE "get",
                        ![r].now = clock]
    /\ UNCHANGED <<memVars, diskVars, boundVars, save, overlap, fatal>>

\* t.mu is held while an entry is put into a map.
MapFree == \A r \in Recorders : rec[r].pc # "insert"

\* With the entry in hand: IncrPending returns, Record goes on.
Got(r) == IF rec[r].entered THEN [rec[r] EXCEPT !.pc = "append"]
          ELSE [rec[r] EXCEPT !.pc = "stamp", !.entered = TRUE, !.todo = Tail(@)]

\* Mutant of Get: a new entry is returned without being put into the map.
GetUnlisted(r) ==
    /\ rec[r].pc = "get" /\ MapFree
    /\ rec' = [rec EXCEPT ![r] = Got(r)]
    /\ UNCHANGED <<memVars, diskVars, boundVars, save, overlap, fatal>>

\* get and getResponsibility: the entry is there, or t.mu is taken to add it.
Get(r) ==
    /\ rec[r].pc = "get" /\ MapFree
    /\ rec' = [rec EXCEPT ![r] = IF Head(rec[r].todo) \in known THEN Got(r) ELSE [@ EXCEPT !.pc = "insert"]]
    /\ UNCHANGED <<memVars, diskVars, boundVars, save, overlap, fatal>>

Insert(r) ==
    /\ rec[r].pc = "insert"
    /\ known' = known \cup {Head(rec[r].todo)}
    /\ rec' = [rec EXCEPT ![r] = Got(r)]
    /\ UNCHANGED <<series, log, diskVars, boundVars, save, overlap, fatal>>

\* Record and record, under the lock of the series; the responsibility has
\* the time of its endpoint.
Record(r) ==
    LET k == Head(rec[r].todo)
        events == Prune(Append(series[k].events, rec[r].now), rec[r].now)
    IN  /\ rec[r].pc = "append"
        /\ series' = [series EXCEPT ![k] = [events |-> events, total |-> @.total + 1]]
        /\ log' = [log EXCEPT ![k] = Append(@, rec[r].now)]
        /\ rec' = [rec EXCEPT ![r] = IF Len(@.todo) = 1 THEN NoRec
                                     ELSE [@ EXCEPT !.pc = IF k = Errors THEN "stamp" ELSE "get",
                                                    !.todo = Tail(rec[r].todo)]]
        /\ UNCHANGED <<known, diskVars, boundVars, save, overlap, fatal>>

Tick ==
    /\ clock < MaxClock /\ clock' = clock + 1
    /\ UNCHANGED <<requests, resets, kills, saveFails, memVars, diskVars, rec, save, overlap, fatal>>

-----------------------------------------------------------------------------
(* Reset and Save.                                                          *)

Busy(p) == save[p] # NoSave
Overlapped(p) == overlap \/ \E q \in Savers \ {p} : Busy(q)

\* The series to be visited next: maps in the order of Go, or sorted by name.
Stage(k) == IF k \in Endpoints THEN 1 ELSE IF k # Errors THEN 2 ELSE 3
NextToClear(todo) == {k \in todo : \A j \in todo : Stage(k) <= Stage(j)}
Place(k) == CHOOSE i \in DOMAIN Order : Order[i] = k
NextToSave(todo) == {k \in todo : \A j \in todo : Place(k) <= Place(j)}

\* A saver after series k, and where it goes after the last one.
Visited(s, k, then) == [s EXCEPT !.todo = @ \ {k}, !.pc = IF s.todo = {k} THEN then ELSE @]

\* resetStats: Reset takes the names under the read lock ...
ResetBegins ==
    /\ ~Busy("reset") /\ MapFree /\ resets < MaxResets /\ resets' = resets + 1
    /\ save' = [save EXCEPT !["reset"] = [NoSave EXCEPT !.pc = "clear", !.todo = known]]
    /\ overlap' = Overlapped("reset")
    /\ UNCHANGED <<clock, requests, kills, saveFails, memVars, diskVars, rec, fatal>>

\* Mutant of Reset: the events stay.
ResetTotals == \E k \in NextToClear(save["reset"].todo) :
    /\ save["reset"].pc = "clear"
    /\ series' = [series EXCEPT ![k].total = 0]
    /\ log' = [log EXCEPT ![k] = <<>>]
    /\ save' = [save EXCEPT !["reset"] = Visited(@, k, "keys")]
    /\ UNCHANGED <<known, diskVars, boundVars, rec, overlap, fatal>>

\* Mutant of Reset: the handler ends without saving.
ResetOnly == \E k \in NextToClear(save["reset"].todo) :
    /\ save["reset"].pc = "clear"
    /\ series' = [series EXCEPT ![k] = Empty]
    /\ log' = [log EXCEPT ![k] = <<>>]
    /\ save' = [save EXCEPT !["reset"] = IF @.todo = {k} THEN NoSave ELSE Visited(@, k, "keys")]
    /\ UNCHANGED <<known, diskVars, boundVars, rec, overlap, fatal>>

\* ... and empties one series after the other, each under its lock.
Reset == \E k \in NextToClear(save["reset"].todo) :
    /\ save["reset"].pc = "clear"
    /\ series' = [series EXCEPT ![k] = Empty]
    /\ log' = [log EXCEPT ![k] = <<>>]
    /\ save' = [save EXCEPT !["reset"] = Visited(@, k, "keys")]
    /\ UNCHANGED <<known, diskVars, boundVars, rec, overlap, fatal>>

\* Mutant of SaveKeys: only the maps are saved.
SaveMaps(p) ==
    /\ IF p = "ticker" THEN ~Busy(p) ELSE save[p].pc = "keys"
    /\ MapFree
    /\ save' = [save EXCEPT ![p].pc = "read", ![p].todo = known \ {Errors}]
    /\ overlap' = Overlapped(p)
    /\ UNCHANGED <<memVars, diskVars, boundVars, rec, fatal>>

\* Save: the names under the read lock; the ticker starts at any time.
SaveKeys(p) ==
    /\ IF p = "ticker" THEN ~Busy(p) ELSE save[p].pc = "keys"
    /\ MapFree
    /\ save' = [save EXCEPT ![p].pc = "read", ![p].todo = known]
    /\ overlap' = Overlapped(p)
    /\ UNCHANGED <<memVars, diskVars, boundVars, rec, fatal>>

Copied(state, k) == [j \in DOMAIN state \cup {k} |-> IF j = k THEN series[k] ELSE state[j]]

\* One series is copied under its lock, its map is read without t.mu.
SaveRead(p) == \E k \in NextToSave(save[p].todo) :
    /\ save[p].pc = "read"
    /\ save' = [save EXCEPT ![p] = [Visited(@, k, "open") EXCEPT !.state = Copied(save[p].state, k)]]
    /\ UNCHANGED <<memVars, diskVars, boundVars, rec, overlap, fatal>>

FreeFile == CHOOSE f \in DOMAIN files : f \notin {tmp, path} \cup {save[q].fd : q \in Savers}

\* Mutant of OpenTmp: the file itself is opened.
OpenInPlace(p) ==
    /\ save[p].pc = "open"
    /\ LET f == IF path = 0 THEN FreeFile ELSE path
       IN  /\ files' = [files EXCEPT ![f] = Blank] /\ path' = f
           /\ save' = [save EXCEPT ![p].pc = "write", ![p].fd = f]
    /\ UNCHANGED <<memVars, tmp, boundVars, rec, overlap, fatal>>

\* os.WriteFile(tmp): opens the file, created or cut to nothing ...
OpenTmp(p) ==
    /\ save[p].pc = "open"
    /\ LET f == IF tmp = 0 THEN FreeFile ELSE tmp
       IN  /\ files' = [files EXCEPT ![f] = Blank] /\ tmp' = f
           /\ save' = [save EXCEPT ![p].pc = "write", ![p].fd = f]
    /\ UNCHANGED <<memVars, path, boundVars, rec, overlap, fatal>>

\* ... and writes from its start, over what another saver wrote there.
WriteTmp(p) ==
    /\ save[p].pc = "write"
    /\ \E content \in {save[p].state} \cup (IF files[save[p].fd] \in {Blank, save[p].state} THEN {} ELSE {Mixed}) :
          files' = [files EXCEPT ![save[p].fd] = content]
    /\ save' = [save EXCEPT ![p].pc = "rename", ![p].fd = 0]
    /\ UNCHANGED <<memVars, tmp, path, boundVars, rec, overlap, fatal>>

\* os.Rename: without a temporary file it fails, and so does the save.  A
\* file with neither a name nor a descriptor is gone.
Rename(p) ==
    /\ save[p].pc = "rename"
    /\ IF tmp = 0 THEN UNCHANGED diskVars
       ELSE /\ path' = tmp /\ tmp' = 0
            /\ files' = [f \in DOMAIN files |-> IF f \in {tmp} \cup {save[q].fd : q \in Savers} THEN files[f] ELSE Blank]
    /\ save' = [save EXCEPT ![p] = NoSave]
    /\ UNCHANGED <<memVars, boundVars, rec, overlap, fatal>>

\* The write fails and leaves what it wrote; the rename fails and the
\* temporary file is removed.
SaveFails(p) ==
    /\ save[p].pc \in {"write", "rename"} /\ saveFails < MaxSaveFails
    /\ saveFails' = saveFails + 1
    /\ tmp' = IF save[p].pc = "write" THEN tmp ELSE 0
    /\ save' = [save EXCEPT ![p] = NoSave]
    /\ UNCHANGED <<clock, requests, resets, kills, memVars, files, path, rec, overlap, fatal>>

-----------------------------------------------------------------------------
(* The end of the process and the next start.                               *)

Whole(content) == content \notin {Blank, Mixed}
Disk == IF path # 0 /\ Whole(files[path]) THEN files[path] ELSE [k \in {} |-> Empty]

\* The entries of s at the indices in I, in their order.
Sift(s, I) ==
    LET pick == CHOOSE p \in [1 .. Cardinality(I) -> I] : \A i, j \in DOMAIN p : i < j => p[i] < p[j]
    IN  [i \in DOMAIN pick |-> s[pick[i]]]

\* Load: a missing or unreadable file is a fresh start.
Load(k) ==
    IF k \notin DOMAIN Disk THEN Empty
    ELSE [Disk[k] EXCEPT !.events = Sift(@, {i \in DOMAIN @ : clock - @[i] <= Keep})]

Restarted ==
    /\ known' = {Errors} \cup DOMAIN Disk
    /\ series' = [k \in Keys |-> Load(k)]
    /\ log' = [k \in Keys |-> Load(k).events]
    /\ rec' = [r \in Recorders |-> NoRec] /\ save' = [p \in Savers |-> NoSave]
    /\ kills < MaxKills /\ kills' = kills + 1
    /\ UNCHANGED <<clock, requests, resets, saveFails, diskVars, overlap>>

\* The process ends, killed or by main returning: nobody waits for a save.
Kill == Restarted /\ UNCHANGED fatal

\* Reset, Save and Snapshot look an entry up in a map, without t.mu, while
\* another is put into the same map: the runtime may end the process.
Reading(p, k) ==
    \/ save[p].pc = "clear" /\ k \in NextToClear(save[p].todo) \ {Errors}
    \/ save[p].pc = "read" /\ k \in NextToSave(save[p].todo) \ {Errors}
Inserting(r, k) == rec[r].pc = "insert" /\ k = Head(rec[r].todo)
MapRace == \E p \in Savers, r \in Recorders, j, k \in Keys :
    Reading(p, j) /\ Inserting(r, k) /\ (j \in Endpoints <=> k \in Endpoints)
ConcurrentMapAccess == MapRace /\ Restarted /\ fatal' = TRUE

RecorderStep(r) == Stamp(r) \/ Get(r) \/ Insert(r) \/ Record(r)
SaverStep(p) == SaveKeys(p) \/ SaveRead(p) \/ OpenTmp(p) \/ WriteTmp(p) \/ Rename(p)

TrackerNext ==
    \/ \E r \in Recorders : RecorderStep(r) \/ \E work \in Works : Arrive(r, work)
    \/ \E p \in Savers : SaverStep(p) \/ SaveFails(p)
    \/ ResetBegins \/ Reset \/ Tick \/ Kill \/ ConcurrentMapAccess

TrackerSpec == TrackerInit /\ [][TrackerNext]_trackerVars

-----------------------------------------------------------------------------
(* Properties.                                                              *)

\* Types: of the series, the goroutines and the two names; the file under
\* the temporary name is never the one under the real name.
TrackerTypeOK ==
    /\ clock \in 0 .. MaxClock /\ Errors \in known /\ known \subseteq Keys
    /\ \A k \in Keys : series[k].total \in 0 .. MaxRequests /\ series[k].events \in Seq(0 .. MaxClock)
    /\ \A k \in Keys \ known : series[k] = Empty
    /\ \A r \in Recorders : rec[r].pc \in {"idle", "get", "insert", "stamp", "append"}
    /\ \A p \in Savers : save[p].pc \in {"idle", "clear", "keys", "read", "open", "write", "rename"}
    /\ {tmp, path} \subseteq {0} \cup DOMAIN files /\ (tmp # 0 => tmp # path)
    /\ fatal \in BOOLEAN /\ overlap \in BOOLEAN

Sorted(events) == \A i, j \in DOMAIN events : i <= j => events[i] <= events[j]
Within(k, window) == Cardinality({i \in DOMAIN log[k] : clock - log[k][i] <= window})

\* What GET /stats reports for the last hour and day is the number of events
\* since the last reset that are that young: pruning never takes one that
\* still counts, and the backward scan misses none.  The scan stops at the
\* first old event, so this is promised for a series recorded in the order
\* of its times only.
WindowsExact ==
    \A k \in Keys : Sorted(log[k]) => /\ Snapshot(k).hour = Within(k, Hour)
                                      /\ Snapshot(k).day = Within(k, Day)

\* No report contradicts itself, whatever Reset, Record and a restart did in
\* between: last hour <= last day <= total, for every series.
ReportConsistent ==
    \A k \in Keys : Snapshot(k).hour <= Snapshot(k).day /\ Snapshot(k).day <= Snapshot(k).total

\* As long as no two saves overlapped, the file is a complete one at every
\* moment at which the process may end.
FileWhole == overlap \/ path = 0 \/ Whole(files[path])

\* As long as no two saves overlapped and none failed, the file is never
\* ahead of the memory outside a reset: a restart brings back neither
\* counters that were cleared nor more than was counted.
ResetOutlivesRestart ==
    overlap \/ saveFails > 0 \/ Busy("reset")
    \/ \A k \in DOMAIN Disk : Disk[k].total <= series[k].total

DiskIsCurrent == DOMAIN Disk = known /\ \A k \in known : Disk[k] = series[k]

\* Everything counted gets to the file: with a ticker that goes on, again
\* and again the file says what the memory says, whatever saves overlapped,
\* failed or were cut short before.
SavedInTheEnd == []<>DiskIsCurrent

\* "All public methods are safe for concurrent use": no map is read while it
\* is written to.
SafeForConcurrentUse == ~fatal
=============================================================================
