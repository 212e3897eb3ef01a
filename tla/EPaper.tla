------------------------------- MODULE EPaper -------------------------------
(***************************************************************************)
(* 2024-12-e-paper: a panel fetches a picture every minute from a worker   *)
(* that renders a web page in a shared browser session and caches the      *)
(* picture; the page is that of a second worker, which fetches the weather *)
(* and caches it.  Every other request of either worker runs at the same   *)
(* time.                                                                   *)
(*                                                                         *)
(* Minutes are counted in ages: Tick makes timers and cached values older. *)
(* A picture is the weather it shows and whether that is marked as stale;  *)
(* its ETag, a digest of it, is the picture itself.                        *)
(***************************************************************************)
EXTENDS Naturals, FiniteSets

CONSTANTS
    None,         \* no value
    Reqs,         \* requests the rendering worker runs at once
    Sessions,     \* browser sessions the account may have at once
    MaxWeather,   \* changes of the weather
    MaxFaults     \* errors of the weather API, of rendering, and broken transfers

Unknown == 0      \* the weather the page shows before it ever got one
Old == 2          \* more than a minute; ages go no further
Picture == [weather : 0 .. MaxWeather + 1, stale : BOOLEAN]
ErrorPage == [weather |-> Unknown, stale |-> FALSE]   \* what a browser shows of a worker that threw

VARIABLES
    weather,                    \* the weather
    faults,
    \* the panel
    timer, preq, etag, shown, broken,
    \* rendering worker: each request, and the picture in its KV
    pc, inm, sess, img, picture,
    \* browser sessions: the request connected to each
    conn,
    \* weather worker: the weather in its KV
    forecast

panel == <<timer, preq, etag, shown, broken>>
worker == <<pc, inm, sess, img, picture>>
vars == <<weather, faults, panel, worker, conn, forecast>>

Closed == "closed"     \* no such session
Free == "free"

ASSUME NamesAssumption ==
    /\ None \notin Reqs \union Sessions \union Picture
    /\ {Free, Closed} \intersect Reqs = {}
    /\ MaxWeather \in Nat /\ MaxFaults \in Nat

Init ==
    /\ weather = 1 /\ faults = 0
    /\ timer = Old /\ preq = None /\ etag = None /\ shown = None /\ broken = FALSE
    /\ pc = [r \in Reqs |-> "idle"] /\ inm = [r \in Reqs |-> None]
    /\ sess = [r \in Reqs |-> None] /\ img = [r \in Reqs |-> None]
    /\ picture = None
    /\ conn = [s \in Sessions |-> Closed]
    /\ forecast = None

Fault == faults < MaxFaults /\ faults' = faults + 1
Go(r, next) == pc' = [pc EXCEPT ![r] = next]

\* Requests that are not in use are alike, and so are closed sessions.
Any(S) == CHOOSE x \in S : TRUE
Idle == {r \in Reqs : pc[r] = "idle"}

\* A request has had its response.
Done(r) ==
    /\ Go(r, "idle")
    /\ img' = [img EXCEPT ![r] = None] /\ inm' = [inm EXCEPT ![r] = None]

-----------------------------------------------------------------------------
(* The panel's loop. *)
Refresh ==
    /\ preq = None /\ timer = Old
    /\ timer' = 0
    /\ Idle # {}
    /\ preq' = Any(Idle) /\ inm' = [inm EXCEPT ![Any(Idle)] = etag] /\ Go(Any(Idle), "get")
    /\ UNCHANGED <<weather, faults, etag, shown, broken, sess, img, picture, conn, forecast>>

\* No WiFi, no connection, or no answer in time; the request itself runs on.
FetchFails ==
    /\ Fault
    /\ \/ preq # None /\ preq' = None /\ timer' = timer
       \/ preq = None /\ timer = Old /\ timer' = 0 /\ preq' = preq
    /\ UNCHANGED <<weather, etag, shown, broken, worker, conn, forecast>>

\* With a status of 200 the ETag is kept before the length of the body is
\* looked at; a body that broke off is not drawn.
Fetched ==
    /\ preq # None /\ pc[preq] \in {"ok", "not_modified", "error"}
    /\ preq' = None /\ Done(preq)
    /\ \/ /\ pc[preq] = "ok" /\ etag' = img[preq]
          /\ \/ shown' = img[preq] /\ broken' = FALSE /\ UNCHANGED faults
             \/ shown' = shown /\ broken' = TRUE /\ Fault
       \/ pc[preq] # "ok" /\ UNCHANGED <<etag, shown, broken, faults>>
    /\ UNCHANGED <<weather, timer, sess, picture, conn, forecast>>

-----------------------------------------------------------------------------
(* The rendering worker.  A browser that visits it sends no ETag; it leaves *)
(* a request to the panel, as the real worker runs any number of them.      *)
Visit ==
    /\ Cardinality(Idle) > 1
    /\ Go(Any(Idle), "get") /\ UNCHANGED inm
    /\ UNCHANGED <<weather, faults, panel, sess, img, picture, conn, forecast>>

Gone(r) ==
    /\ pc[r] \in {"ok", "not_modified", "error"} /\ preq # r
    /\ Done(r)
    /\ UNCHANGED <<weather, faults, panel, sess, picture, conn, forecast>>

\* Mutant: 304 to whoever has a picture.
ResponseToAny(r, image) == IF inm[r] = None THEN "ok" ELSE "not_modified"

\* The end of fetch: 304 if the client has this picture.
Response(r, image) == IF inm[r] = image THEN "not_modified" ELSE "ok"

KVGet(r) ==
    /\ pc[r] = "get"
    /\ \/ picture = None /\ Go(r, "sessions") /\ UNCHANGED img
       \/ /\ picture # None /\ img' = [img EXCEPT ![r] = picture.img]
          /\ Go(r, Response(r, picture.img))
    /\ UNCHANGED <<weather, faults, panel, inm, sess, picture, conn, forecast>>

\* A free session of those there were, or none.
GetRandomBrowserSession(r) ==
    /\ pc[r] = "sessions"
    /\ LET free == {s \in Sessions : conn[s] = Free} IN
       \/ \E s \in free : sess' = [sess EXCEPT ![r] = s] /\ Go(r, "connect")
       \/ free = {} /\ Go(r, "launch") /\ UNCHANGED sess
    /\ UNCHANGED <<weather, faults, panel, inm, img, picture, conn, forecast>>

\* Mutant: a session that has a request takes another one.
ConnectAnyway(r) ==
    /\ pc[r] = "connect"
    /\ IF sess[r] # None
       THEN conn' = [conn EXCEPT ![sess[r]] = r] /\ Go(r, "goto") /\ UNCHANGED sess
       ELSE sess' = [sess EXCEPT ![r] = None] /\ Go(r, "launch") /\ UNCHANGED conn
    /\ UNCHANGED <<weather, faults, panel, inm, img, picture, forecast>>

\* Another request may have connected first, or the session may be gone.
Connect(r) ==
    /\ pc[r] = "connect"
    /\ IF sess[r] # None /\ conn[sess[r]] = Free
       THEN conn' = [conn EXCEPT ![sess[r]] = r] /\ Go(r, "goto") /\ UNCHANGED sess
       ELSE sess' = [sess EXCEPT ![r] = None] /\ Go(r, "launch") /\ UNCHANGED conn
    /\ UNCHANGED <<weather, faults, panel, inm, img, picture, forecast>>

\* Above the account's limit launch throws.
Launch(r) ==
    /\ pc[r] = "launch"
    /\ LET closed == {s \in Sessions : conn[s] = Closed} IN
       \/ /\ closed # {}
          /\ conn' = [conn EXCEPT ![Any(closed)] = r] /\ sess' = [sess EXCEPT ![r] = Any(closed)]
          /\ Go(r, "goto")
       \/ closed = {} /\ Go(r, "error") /\ UNCHANGED <<conn, sess>>
    /\ UNCHANGED <<weather, faults, panel, inm, img, picture, forecast>>

\* newPage, goto or screenshot throws: nobody disconnects.
RenderThrows(r) ==
    /\ pc[r] \in {"goto", "fetch", "screenshot"}
    /\ Fault /\ Go(r, "error") /\ sess' = [sess EXCEPT ![r] = None] /\ img' = [img EXCEPT ![r] = None]
    /\ UNCHANGED <<weather, panel, inm, picture, conn, forecast>>

Put(r) ==
    /\ pc[r] = "screenshot"
    /\ picture' = [img |-> img[r], age |-> 0]
    /\ Go(r, "disconnect")
    /\ UNCHANGED <<weather, faults, panel, inm, sess, img, conn, forecast>>

Disconnect(r) ==
    /\ pc[r] = "disconnect"
    /\ conn' = [conn EXCEPT ![sess[r]] = Free]
    /\ sess' = [sess EXCEPT ![r] = None] /\ Go(r, Response(r, img[r]))
    /\ UNCHANGED <<weather, faults, panel, inm, img, picture, forecast>>

-----------------------------------------------------------------------------
(* The weather worker, while the browser of request r loads its page. *)

Show(r, w, stale) == img' = [img EXCEPT ![r] = [weather |-> w, stale |-> stale]]

\* A forecast of at most a minute is shown as it is; an older one, or one that
\* came with the program, is marked as stale before a new one is asked for.
WeatherGet(r) ==
    /\ pc[r] = "goto"
    /\ \/ /\ forecast # None /\ forecast.age < Old
          /\ Show(r, forecast.weather, FALSE) /\ Go(r, "screenshot")
       \/ /\ forecast = None
          /\ Show(r, Unknown, TRUE) /\ Go(r, "fetch")
       \/ /\ forecast # None /\ forecast.age = Old
          /\ Show(r, forecast.weather, TRUE) /\ Go(r, "fetch")
    /\ UNCHANGED <<weather, faults, panel, inm, sess, picture, conn, forecast>>

\* An answer that has no forecast leaves the old one; one that is no JSON, or
\* none, makes the page an error, which is a picture like any other.
WeatherFetch(r) ==
    /\ pc[r] = "fetch"
    /\ \/ Show(r, weather, FALSE) /\ Go(r, "keep") /\ UNCHANGED faults
       \/ Fault /\ Go(r, "screenshot") /\ UNCHANGED img
       \/ Fault /\ Go(r, "screenshot") /\ img' = [img EXCEPT ![r] = ErrorPage]
    /\ UNCHANGED <<weather, panel, inm, sess, picture, conn, forecast>>

WeatherPut(r) ==
    /\ pc[r] = "keep"
    /\ forecast' = [weather |-> img[r].weather, age |-> 0]
    /\ Go(r, "screenshot")
    /\ UNCHANGED <<weather, faults, panel, inm, sess, img, picture, conn>>

-----------------------------------------------------------------------------
WeatherChanges ==
    /\ weather <= MaxWeather /\ weather' = weather + 1
    /\ UNCHANGED <<faults, panel, worker, conn, forecast>>

Older(age) == IF age = Old THEN Old ELSE age + 1

\* Mutant: the picture has no TTL.
TickNoTTL ==
    /\ timer' = Older(timer)
    /\ picture' = IF picture = None \/ picture.age = 1 THEN picture ELSE [picture EXCEPT !.age = 1]
    /\ forecast' = IF forecast = None THEN None ELSE [forecast EXCEPT !.age = Older(@)]
    /\ UNCHANGED <<weather, faults, preq, etag, shown, broken, pc, inm, sess, img, conn>>

\* A minute passes.  The picture lives for one; a forecast is used for one.
Tick ==
    /\ timer' = Older(timer)
    /\ picture' = IF picture = None \/ picture.age + 1 = Old THEN None
                  ELSE [picture EXCEPT !.age = @ + 1]
    /\ forecast' = IF forecast = None THEN None ELSE [forecast EXCEPT !.age = Older(@)]
    /\ UNCHANGED <<weather, faults, preq, etag, shown, broken, pc, inm, sess, img, conn>>

\* A session nobody uses for ten minutes is closed: who has found it in the list
\* has the name of no session.
Abandoned(s) == conn[s] # Closed /\ \A r \in Reqs : conn[s] = r => sess[r] # s
SessionTimeout(s) ==
    /\ Abandoned(s)
    /\ conn' = [conn EXCEPT ![s] = Closed]
    /\ sess' = [r \in Reqs |-> IF sess[r] = s THEN None ELSE sess[r]]
    /\ UNCHANGED <<weather, faults, panel, pc, inm, img, picture, forecast>>

Fetch(r) ==
    \/ KVGet(r) \/ GetRandomBrowserSession(r) \/ Connect(r) \/ Launch(r)
    \/ WeatherGet(r) \/ WeatherFetch(r) \/ WeatherPut(r)
    \/ Put(r) \/ Disconnect(r)

Next ==
    \/ Refresh \/ FetchFails \/ Fetched
    \/ Visit
    \/ \E r \in Reqs : Gone(r) \/ Fetch(r) \/ RenderThrows(r)
    \/ WeatherChanges \/ Tick
    \/ \E s \in Sessions : SessionTimeout(s)

Spec == Init /\ [][Next]_vars

\* The programs and the clock run; unused sessions time out.  No visitor has to
\* come and no fault has to happen.
Fairness ==
    /\ WF_vars(Refresh) /\ WF_vars(Fetched) /\ WF_vars(Tick)
    /\ \A r \in Reqs : WF_vars(Fetch(r)) /\ WF_vars(Gone(r))
    /\ \A s \in Sessions : WF_vars(SessionTimeout(s))
FairSpec == Spec /\ Fairness

-----------------------------------------------------------------------------
TypeOK ==
    /\ weather \in 1 .. MaxWeather + 1 /\ faults \in 0 .. MaxFaults
    /\ timer \in 0 .. Old /\ preq \in Reqs \union {None}
    /\ {etag, shown} \subseteq Picture \union {None} /\ broken \in BOOLEAN
    /\ inm \in [Reqs -> Picture \union {None}] /\ img \in [Reqs -> Picture \union {None}]
    /\ sess \in [Reqs -> Sessions \union {None}]
    /\ picture \in [img : Picture, age : 0 .. 1] \union {None}
    /\ conn \in [Sessions -> Reqs \union {Free, Closed}]
    /\ forecast \in [weather : 1 .. MaxWeather + 1, age : 0 .. Old] \union {None}

\* fetch lists the sessions, waits, and connects: still no two requests drive
\* one browser, and none loses the browser it drives.
Rendering == {"goto", "fetch", "keep", "screenshot", "disconnect"}
SessionOwned == TypeOK /\ \A r \in Reqs : pc[r] \in Rendering => sess[r] # None /\ conn[sess[r]] = r

\* The worker says 304 only of the picture the panel shows: cached, rendered
\* meanwhile or asked for by others as it may be.  Unless the body of that
\* picture broke off: the panel has kept its ETag and goes without it.
NotModifiedMeansShown ==
    preq # None /\ pc[preq] = "not_modified" /\ ~broken => shown # None /\ img[preq] = shown

\* When the weather settles and visitors stay away, the panel comes to show the
\* weather, unmarked, through both caches and whatever sessions they left; or a
\* transfer of it broke off.  (With visitors a request may lose every session it
\* finds, and then get no new one, each minute again.)
Quiet == \A r \in Reqs : pc[r] # "idle" => preq = r
PanelCatchesUp ==
    <>[]Quiet => <>[](broken \/ shown = [weather |-> weather, stale |-> FALSE])
=============================================================================
