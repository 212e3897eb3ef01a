---------------------------- MODULE EPaperProofs ----------------------------
(***************************************************************************)
(* The e-paper display for any number of requests, browser sessions,       *)
(* changes of the weather and faults.                                      *)
(***************************************************************************)
EXTENDS EPaper, FiniteSetTheorems, TLAPS

Steps == {"idle", "get", "sessions", "connect", "launch", "error", "ok", "not_modified"} \union Rendering

\* Who drives a session is connected to it: sessions are only taken when they
\* are free or closed, and only abandoned ones are closed.
Owned == \A r \in Reqs : pc[r] \in Rendering => sess[r] # None /\ conn[sess[r]] = r

\* A request has a picture from the first page it loads to its response, and
\* keeps only a forecast that came from the API.
Pictured ==
    \A r \in Reqs :
        /\ pc[r] \in {"fetch", "keep", "screenshot", "disconnect", "ok", "not_modified"} => img[r] \in Picture
        /\ pc[r] = "keep" => img[r].weather \in 1 .. MaxWeather + 1

\* The panel's request carries the ETag the panel holds, 304 answers the
\* picture the request named, and the ETag is of the picture shown unless a
\* transfer broke off.
Asked ==
    /\ preq # None => pc[preq] # "idle" /\ inm[preq] = etag
    /\ \A r \in Reqs : pc[r] = "not_modified" => img[r] = inm[r]
    /\ ~broken => etag = shown

IInv == TypeOK /\ pc \in [Reqs -> Steps] /\ Owned /\ Pictured /\ Asked

LEMMA AnyOne == ASSUME NEW S, S # {} PROVE Any(S) \in S
BY DEF Any

\* What a page shows is a picture.
LEMMA PageIsPicture ==
    ASSUME NEW w \in 0 .. MaxWeather + 1, NEW stale \in BOOLEAN
    PROVE  [weather |-> w, stale |-> stale] \in Picture
BY DEF Picture

LEMMA InitIInv == Init => IInv
<1> SUFFICES ASSUME Init PROVE IInv
  OBVIOUS
<1>1. TypeOK
  <2>1. weather \in 1 .. MaxWeather + 1 /\ faults \in 0 .. MaxFaults /\ timer \in 0 .. Old
    BY NamesAssumption DEF Init, Old
  <2>2. {etag, shown} \subseteq Picture \union {None}
    BY DEF Init
  <2>3. /\ inm \in [Reqs -> Picture \union {None}] /\ img \in [Reqs -> Picture \union {None}]
        /\ sess \in [Reqs -> Sessions \union {None}]
        /\ conn \in [Sessions -> Reqs \union {Free, Closed}]
    BY DEF Init
  <2> QED BY <2>1, <2>2, <2>3 DEF Init, TypeOK
<1>2. pc \in [Reqs -> Steps] /\ Owned /\ Pictured /\ Asked
  BY DEF Init, Steps, Owned, Rendering, Pictured, Asked
<1> QED BY <1>1, <1>2 DEF IInv

LEMMA KVGetStep == ASSUME IInv, NEW r \in Reqs, KVGet(r) PROVE IInv'
<1> USE NamesAssumption DEF IInv, KVGet, Go, Response, panel, worker, Old
<1>1. TypeOK'
  BY DEF TypeOK, Picture, ErrorPage, Unknown, Pictured
<1>2. (pc \in [Reqs -> Steps])'
  BY DEF Steps, Rendering, TypeOK
<1>3. Owned'
  BY DEF Owned, Rendering, Steps, TypeOK
<1>4. Pictured'
  BY DEF Pictured, Steps, TypeOK, Rendering
<1>5. Asked'
  BY DEF Asked, Steps, TypeOK, Rendering, Pictured
<1> QED BY <1>1, <1>2, <1>3, <1>4, <1>5

LEMMA GetRandomBrowserSessionStep == ASSUME IInv, NEW r \in Reqs, GetRandomBrowserSession(r) PROVE IInv'
<1> USE NamesAssumption DEF IInv, GetRandomBrowserSession, Go, panel, worker, Old
<1>1. TypeOK'
  BY DEF TypeOK, Picture, ErrorPage, Unknown, Pictured
<1>2. (pc \in [Reqs -> Steps])'
  BY DEF Steps, Rendering, TypeOK
<1>3. Owned'
  BY DEF Owned, Rendering, Steps, TypeOK
<1>4. Pictured'
  BY DEF Pictured, Steps, TypeOK, Rendering
<1>5. Asked'
  BY DEF Asked, Steps, TypeOK, Rendering, Pictured
<1> QED BY <1>1, <1>2, <1>3, <1>4, <1>5

LEMMA ConnectStep == ASSUME IInv, NEW r \in Reqs, Connect(r) PROVE IInv'
<1> USE NamesAssumption DEF IInv, Connect, Go, panel, worker, Old
<1>1. TypeOK'
  BY DEF TypeOK, Picture, ErrorPage, Unknown, Pictured
<1>2. (pc \in [Reqs -> Steps])'
  BY DEF Steps, Rendering, TypeOK
<1>3. Owned'
  BY DEF Owned, Rendering, Steps, TypeOK
<1>4. Pictured'
  BY DEF Pictured, Steps, TypeOK, Rendering
<1>5. Asked'
  BY DEF Asked, Steps, TypeOK, Rendering, Pictured
<1> QED BY <1>1, <1>2, <1>3, <1>4, <1>5

LEMMA LaunchStep == ASSUME IInv, NEW r \in Reqs, Launch(r) PROVE IInv'
<1> USE NamesAssumption DEF IInv, Launch, Go, panel, worker, Old
<1>0. CASE {s \in Sessions : conn[s] = Closed} = {}
  BY <1>0 DEF TypeOK, Owned, Pictured, Asked, Steps, Rendering
<1> SUFFICES ASSUME {s \in Sessions : conn[s] = Closed} # {} PROVE IInv'
  BY <1>0
<1> DEFINE new == Any({s \in Sessions : conn[s] = Closed})
<1>6. new \in Sessions /\ conn[new] = Closed
  BY AnyOne
<1>7. /\ conn' = [conn EXCEPT ![new] = r] /\ sess' = [sess EXCEPT ![r] = new]
      /\ pc[r] = "launch" /\ pc' = [pc EXCEPT ![r] = "goto"]
  OBVIOUS
<1> HIDE DEF new
<1>1. TypeOK'
  BY <1>6, <1>7 DEF TypeOK
<1>2. (pc \in [Reqs -> Steps])'
  BY DEF Steps, Rendering, TypeOK
<1>3. Owned'
  BY <1>6, <1>7 DEF Owned, Rendering, Steps, TypeOK
<1>4. Pictured'
  BY DEF Pictured, Steps, TypeOK, Rendering
<1>5. Asked'
  BY DEF Asked, Steps, TypeOK, Rendering, Pictured
<1> QED BY <1>1, <1>2, <1>3, <1>4, <1>5

LEMMA WeatherGetStep == ASSUME IInv, NEW r \in Reqs, WeatherGet(r) PROVE IInv'
<1> USE NamesAssumption DEF IInv, WeatherGet, Go, Show, panel, worker, Old
<1>6. PICK p \in Picture : img' = [img EXCEPT ![r] = p]
  <2>1. CASE forecast = None
    <3>1. Unknown \in 0 .. MaxWeather + 1
      BY DEF Unknown
    <3>2. [weather |-> Unknown, stale |-> TRUE] \in Picture
      BY <3>1, PageIsPicture
    <3> QED BY <2>1, <3>2
  <2>2. CASE forecast # None
    <3>1. forecast.weather \in 0 .. MaxWeather + 1
      BY <2>2 DEF TypeOK
    <3> QED BY <2>2, <3>1, PageIsPicture
  <2> QED BY <2>1, <2>2
<1>1. TypeOK'
  BY <1>6 DEF TypeOK
<1>2. (pc \in [Reqs -> Steps])'
  BY DEF Steps, Rendering, TypeOK
<1>3. Owned'
  BY DEF Owned, Rendering, Steps, TypeOK
<1>4. Pictured'
  <2>1. pc' \in {[pc EXCEPT ![r] = "screenshot"], [pc EXCEPT ![r] = "fetch"]}
    OBVIOUS
  <2> QED BY <1>6, <2>1 DEF Pictured, Steps, TypeOK
<1>5. Asked'
  BY DEF Asked, Steps, TypeOK, Rendering, Pictured
<1> QED BY <1>1, <1>2, <1>3, <1>4, <1>5

LEMMA WeatherFetchStep == ASSUME IInv, NEW r \in Reqs, WeatherFetch(r) PROVE IInv'
<1> USE NamesAssumption DEF IInv, WeatherFetch, Go, Show, Fault, panel, worker, Old
<1>6. \/ /\ pc' = [pc EXCEPT ![r] = "keep"]
         /\ \E p \in Picture : img' = [img EXCEPT ![r] = p] /\ p.weather = weather
      \/ /\ pc' = [pc EXCEPT ![r] = "screenshot"]
         /\ img' = img \/ \E p \in Picture : img' = [img EXCEPT ![r] = p]
  <2>1. weather \in 0 .. MaxWeather + 1 /\ 0 \in 0 .. MaxWeather + 1
    BY DEF TypeOK
  <2>2. [weather |-> weather, stale |-> FALSE] \in Picture /\ ErrorPage \in Picture
    BY <2>1, PageIsPicture DEF ErrorPage, Unknown
  <2> QED BY <2>2
<1>1. TypeOK'
  BY <1>6 DEF TypeOK
<1>2. (pc \in [Reqs -> Steps])'
  BY DEF Steps, Rendering, TypeOK
<1>3. Owned'
  BY DEF Owned, Rendering, Steps, TypeOK
<1>4. Pictured'
  BY <1>6 DEF Pictured, Steps, TypeOK
<1>5. Asked'
  BY DEF Asked, Steps, TypeOK, Rendering, Pictured
<1> QED BY <1>1, <1>2, <1>3, <1>4, <1>5

LEMMA WeatherPutStep == ASSUME IInv, NEW r \in Reqs, WeatherPut(r) PROVE IInv'
<1> USE NamesAssumption DEF IInv, WeatherPut, Go, panel, worker, Old
<1>1. TypeOK'
  BY DEF TypeOK, Picture, ErrorPage, Unknown, Pictured
<1>2. (pc \in [Reqs -> Steps])'
  BY DEF Steps, Rendering, TypeOK
<1>3. Owned'
  BY DEF Owned, Rendering, Steps, TypeOK
<1>4. Pictured'
  BY DEF Pictured, Steps, TypeOK, Rendering
<1>5. Asked'
  BY DEF Asked, Steps, TypeOK, Rendering, Pictured
<1> QED BY <1>1, <1>2, <1>3, <1>4, <1>5

LEMMA PutStep == ASSUME IInv, NEW r \in Reqs, Put(r) PROVE IInv'
<1> USE NamesAssumption DEF IInv, Put, Go, panel, worker, Old
<1>1. TypeOK'
  BY DEF TypeOK, Picture, ErrorPage, Unknown, Pictured
<1>2. (pc \in [Reqs -> Steps])'
  BY DEF Steps, Rendering, TypeOK
<1>3. Owned'
  BY DEF Owned, Rendering, Steps, TypeOK
<1>4. Pictured'
  BY DEF Pictured, Steps, TypeOK, Rendering
<1>5. Asked'
  BY DEF Asked, Steps, TypeOK, Rendering, Pictured
<1> QED BY <1>1, <1>2, <1>3, <1>4, <1>5

LEMMA DisconnectStep == ASSUME IInv, NEW r \in Reqs, Disconnect(r) PROVE IInv'
<1> USE NamesAssumption DEF IInv, Disconnect, Go, Response, panel, worker, Old
<1>1. TypeOK'
  BY DEF TypeOK, Picture, ErrorPage, Unknown, Pictured
<1>2. (pc \in [Reqs -> Steps])'
  BY DEF Steps, Rendering, TypeOK
<1>3. Owned'
  BY DEF Owned, Rendering, Steps, TypeOK
<1>4. Pictured'
  BY DEF Pictured, Steps, TypeOK, Rendering
<1>5. Asked'
  BY DEF Asked, Steps, TypeOK, Rendering, Pictured
<1> QED BY <1>1, <1>2, <1>3, <1>4, <1>5

LEMMA RenderThrowsStep == ASSUME IInv, NEW r \in Reqs, RenderThrows(r) PROVE IInv'
<1> USE NamesAssumption DEF IInv, RenderThrows, Go, Fault, panel, worker, Old
<1>1. TypeOK'
  BY DEF TypeOK, Picture, ErrorPage, Unknown, Pictured
<1>2. (pc \in [Reqs -> Steps])'
  BY DEF Steps, Rendering, TypeOK
<1>3. Owned'
  BY DEF Owned, Rendering, Steps, TypeOK
<1>4. Pictured'
  BY DEF Pictured, Steps, TypeOK, Rendering
<1>5. Asked'
  BY DEF Asked, Steps, TypeOK, Rendering, Pictured
<1> QED BY <1>1, <1>2, <1>3, <1>4, <1>5

LEMMA GoneStep == ASSUME IInv, NEW r \in Reqs, Gone(r) PROVE IInv'
<1> USE NamesAssumption DEF IInv, Gone, Done, Go, panel, worker, Old
<1>1. TypeOK'
  BY DEF TypeOK, Picture, ErrorPage, Unknown, Pictured
<1>2. (pc \in [Reqs -> Steps])'
  BY DEF Steps, Rendering, TypeOK
<1>3. Owned'
  BY DEF Owned, Rendering, Steps, TypeOK
<1>4. Pictured'
  BY DEF Pictured, Steps, TypeOK, Rendering
<1>5. Asked'
  BY DEF Asked, Steps, TypeOK, Rendering, Pictured
<1> QED BY <1>1, <1>2, <1>3, <1>4, <1>5

LEMMA RefreshStep == ASSUME IInv, Refresh PROVE IInv'
<1> USE NamesAssumption DEF IInv, Refresh, Go, panel, worker, Old
<1>6. PICK r \in Reqs : pc[r] = "idle" /\ r = Any(Idle)
  BY AnyOne DEF Idle
<1>7. /\ preq' = r /\ inm' = [inm EXCEPT ![r] = etag] /\ pc' = [pc EXCEPT ![r] = "get"]
      /\ preq = None /\ timer' = 0
  BY <1>6
<1>1. TypeOK'
  BY <1>6, <1>7 DEF TypeOK
<1>2. (pc \in [Reqs -> Steps])'
  BY DEF Steps, Rendering, TypeOK
<1>3. Owned'
  BY DEF Owned, Rendering, Steps, TypeOK
<1>4. Pictured'
  BY DEF Pictured, Steps, TypeOK, Rendering
<1>5. Asked'
  BY <1>6, <1>7 DEF Asked, Steps, TypeOK
<1> QED BY <1>1, <1>2, <1>3, <1>4, <1>5

LEMMA FetchFailsStep == ASSUME IInv, FetchFails PROVE IInv'
<1> USE NamesAssumption DEF IInv, FetchFails, Fault, panel, worker, Old
<1>1. TypeOK'
  BY DEF TypeOK, Picture, ErrorPage, Unknown, Pictured
<1>2. (pc \in [Reqs -> Steps])'
  BY DEF Steps, Rendering, TypeOK
<1>3. Owned'
  BY DEF Owned, Rendering, Steps, TypeOK
<1>4. Pictured'
  BY DEF Pictured, Steps, TypeOK, Rendering
<1>5. Asked'
  BY DEF Asked, Steps, TypeOK, Rendering, Pictured
<1> QED BY <1>1, <1>2, <1>3, <1>4, <1>5

LEMMA FetchedStep == ASSUME IInv, Fetched PROVE IInv'
<1> USE NamesAssumption DEF IInv, Fetched, Done, Go, Fault, panel, worker, Old
<1>6. pc[preq] = "ok" => img[preq] \in Picture
  BY DEF Pictured, TypeOK
<1>7. img' = [img EXCEPT ![preq] = None] /\ inm' = [inm EXCEPT ![preq] = None] /\ preq \in Reqs
  BY DEF TypeOK
<1>8. /\ etag' \in {etag, img[preq]} /\ shown' \in {shown, img[preq]}
      /\ (etag' = etag /\ shown' = shown) \/ pc[preq] = "ok"
  OBVIOUS
<1>9. broken' \in BOOLEAN /\ faults' \in 0 .. MaxFaults
  <2>1. broken' = TRUE \/ broken' = FALSE \/ broken' = broken
    OBVIOUS
  <2>2. broken' \in BOOLEAN
    BY <2>1 DEF TypeOK
  <2>3. faults' = faults \/ (faults < MaxFaults /\ faults' = faults + 1)
    OBVIOUS
  <2>4. faults' \in 0 .. MaxFaults
    BY <2>3 DEF TypeOK
  <2> QED BY <2>2, <2>4
<1>1. TypeOK'
  BY <1>6, <1>7, <1>8, <1>9 DEF TypeOK
<1>2. (pc \in [Reqs -> Steps])'
  BY DEF Steps, Rendering, TypeOK
<1>3. Owned'
  BY DEF Owned, Rendering, Steps, TypeOK
<1>4. Pictured'
  BY DEF Pictured, Steps, TypeOK, Rendering
<1>5. Asked'
  BY DEF Asked, Steps, TypeOK, Rendering, Pictured
<1> QED BY <1>1, <1>2, <1>3, <1>4, <1>5

LEMMA VisitStep == ASSUME IInv, Visit PROVE IInv'
<1> USE NamesAssumption DEF IInv, Visit, Go, panel, worker, Old
<1>1. TypeOK'
  BY DEF TypeOK, Picture, ErrorPage, Unknown, Pictured
<1>2. (pc \in [Reqs -> Steps])'
  BY DEF Steps, Rendering, TypeOK
<1>3. Owned'
  BY DEF Owned, Rendering, Steps, TypeOK
<1>4. Pictured'
  BY DEF Pictured, Steps, TypeOK, Rendering
<1>5. Asked'
  BY DEF Asked, Steps, TypeOK, Rendering, Pictured
<1> QED BY <1>1, <1>2, <1>3, <1>4, <1>5

LEMMA WeatherChangesStep == ASSUME IInv, WeatherChanges PROVE IInv'
<1> USE NamesAssumption DEF IInv, WeatherChanges, panel, worker, Old
<1>1. TypeOK'
  BY DEF TypeOK, Picture, ErrorPage, Unknown, Pictured
<1>2. (pc \in [Reqs -> Steps])'
  BY DEF Steps, Rendering, TypeOK
<1>3. Owned'
  BY DEF Owned, Rendering, Steps, TypeOK
<1>4. Pictured'
  BY DEF Pictured, Steps, TypeOK, Rendering
<1>5. Asked'
  BY DEF Asked, Steps, TypeOK, Rendering, Pictured
<1> QED BY <1>1, <1>2, <1>3, <1>4, <1>5

LEMMA TickStep == ASSUME IInv, Tick PROVE IInv'
<1> USE NamesAssumption DEF IInv, Tick, Older, panel, worker, Old
<1>1. TypeOK'
  BY DEF TypeOK, Picture, ErrorPage, Unknown, Pictured
<1>2. (pc \in [Reqs -> Steps])'
  BY DEF Steps, Rendering, TypeOK
<1>3. Owned'
  BY DEF Owned, Rendering, Steps, TypeOK
<1>4. Pictured'
  BY DEF Pictured, Steps, TypeOK, Rendering
<1>5. Asked'
  BY DEF Asked, Steps, TypeOK, Rendering, Pictured
<1> QED BY <1>1, <1>2, <1>3, <1>4, <1>5

LEMMA SessionTimeoutStep == ASSUME IInv, NEW s \in Sessions, SessionTimeout(s) PROVE IInv'
<1> USE NamesAssumption DEF IInv, SessionTimeout, Abandoned, panel, worker, Old
<1>1. TypeOK'
  BY DEF TypeOK, Picture, ErrorPage, Unknown, Pictured
<1>2. (pc \in [Reqs -> Steps])'
  BY DEF Steps, Rendering, TypeOK
<1>3. Owned'
  BY DEF Owned, Rendering, Steps, TypeOK
<1>4. Pictured'
  BY DEF Pictured, Steps, TypeOK, Rendering
<1>5. Asked'
  BY DEF Asked, Steps, TypeOK, Rendering, Pictured
<1> QED BY <1>1, <1>2, <1>3, <1>4, <1>5

\* Every step of the panel, of the workers and of the world around them.
LEMMA NextIInv == ASSUME IInv, [Next]_vars PROVE IInv'
<1>1. ASSUME NEW r \in Reqs, Fetch(r) PROVE IInv'
  BY <1>1, KVGetStep, GetRandomBrowserSessionStep, ConnectStep, LaunchStep, WeatherGetStep,
     WeatherFetchStep, WeatherPutStep, PutStep, DisconnectStep DEF Fetch
<1>2. ASSUME NEW r \in Reqs, Gone(r) \/ RenderThrows(r) PROVE IInv'
  BY <1>2, GoneStep, RenderThrowsStep
<1>3. CASE Refresh \/ FetchFails \/ Fetched \/ Visit
  BY <1>3, RefreshStep, FetchFailsStep, FetchedStep, VisitStep
<1>4. CASE WeatherChanges \/ Tick \/ \E s \in Sessions : SessionTimeout(s)
  BY <1>4, WeatherChangesStep, TickStep, SessionTimeoutStep
<1>5. CASE UNCHANGED vars
  BY <1>5 DEF vars, panel, worker, IInv, TypeOK, Owned, Pictured, Asked
<1> QED BY <1>1, <1>2, <1>3, <1>4, <1>5 DEF Next

LEMMA Inductive == Spec => []IInv
<1> QED BY InitIInv, NextIInv, PTL DEF Spec

\* However many requests look for a session at once and whenever sessions
\* time out, a request that renders drives a session of its own.
THEOREM SessionsOwned == Spec => []SessionOwned
<1>1. IInv => SessionOwned
  BY DEF IInv, Owned, SessionOwned
<1> QED BY <1>1, Inductive, PTL

\* The worker answers 304 only of the picture the panel shows.
THEOREM NotModifiedTrue == Spec => []NotModifiedMeansShown
<1>1. ASSUME IInv PROVE NotModifiedMeansShown
  <2> SUFFICES ASSUME preq # None, pc[preq] = "not_modified", ~broken
               PROVE  shown # None /\ img[preq] = shown
    BY DEF NotModifiedMeansShown
  <2>1. preq \in Reqs /\ img[preq] \in Picture
    BY <1>1 DEF IInv, TypeOK, Pictured
  <2>2. img[preq] = inm[preq] /\ inm[preq] = etag /\ etag = shown
    BY <1>1, <2>1 DEF IInv, Asked
  <2> QED BY <2>1, <2>2, NamesAssumption
<1> QED BY <1>1, Inductive, PTL
=============================================================================
