-------------------------- MODULE CallbackLimiter --------------------------
(***************************************************************************)
(* The limiter of /oauth/callback (oauth/server.go, callbackLimiter).      *)
(*                                                                         *)
(* Requests are served by goroutines of their own.  Each takes its         *)
(* timestamp before it waits for the mutex, so the limiter sees timestamps *)
(* out of order; a request that came later may already have dropped the    *)
(* entries an earlier one would still count.                               *)
(***************************************************************************)
EXTENDS Integers, FiniteSets

CONSTANTS
    Attempts,   \* requests to /oauth/callback
    IPs,        \* client addresses
    IPOf,       \* the address of each request
    Burst,      \* 20 in the code
    Window,     \* one minute
    ScanEvery,  \* the five minutes between scans of all addresses
    MaxDelay,   \* how long a request may wait between timestamp and mutex
    MaxClock    \* bound: the time the model covers

ASSUME LimiterParameters ==
    /\ IsFiniteSet(Attempts)
    /\ IPOf \in [Attempts -> IPs]
    /\ Burst \in Nat
    /\ Window \in Nat \ {0}
    /\ ScanEvery \in Nat
    /\ MaxDelay \in Nat
    /\ MaxClock \in Nat

VARIABLES
    clock,
    verdict,  \* where each request is, and what became of it
    stamp,    \* its timestamp
    byIP,     \* limiter: the requests it counts for an address
    lastScan  \* limiter: time of the last scan

vars == <<clock, verdict, stamp, byIP, lastScan>>

Init ==
    /\ clock = 0
    /\ verdict = [a \in Attempts |-> "new"]
    /\ stamp = [a \in Attempts |-> 0]
    /\ byIP = [ip \in IPs |-> {}]
    /\ lastScan = -ScanEvery - 1   \* the zero time

Tick ==
    /\ clock < MaxClock
    /\ \A a \in Attempts : verdict[a] = "stamped" => clock < stamp[a] + MaxDelay
    /\ clock' = clock + 1
    /\ UNCHANGED <<verdict, stamp, byIP, lastScan>>

\* Fault: the time is rounded up.
TakeStampRoundedUp(a) ==
    /\ verdict[a] = "new"
    /\ verdict' = [verdict EXCEPT ![a] = "stamped"]
    /\ stamp' = [stamp EXCEPT ![a] = clock + 1]
    /\ UNCHANGED <<clock, byIP, lastScan>>

\* now := time.Now()
TakeStamp(a) ==
    /\ verdict[a] = "new"
    /\ verdict' = [verdict EXCEPT ![a] = "stamped"]
    /\ stamp' = [stamp EXCEPT ![a] = clock]
    /\ UNCHANGED <<clock, byIP, lastScan>>

\* The entries of a bucket that are after the cutoff.
Fresh(bucket, now) == {b \in bucket : stamp[b] > now - Window}

\* Fault: a scan empties the buckets.
ScannedAll(now) ==
    IF now - lastScan > ScanEvery THEN [ip \in IPs |-> {}] ELSE byIP

\* The buckets once the infrequent scan, if it is due, has been made.
Scanned(now) ==
    IF now - lastScan > ScanEvery
    THEN [ip \in IPs |-> Fresh(byIP[ip], now)]
    ELSE byIP

\* Fault: a refused request counts, too.
AllowCountsAll(a) ==
    /\ verdict[a] = "stamped"
    /\ LET now    == stamp[a]
           ip     == IPOf[a]
           recent == Fresh(Scanned(now)[ip], now)
       IN /\ lastScan' = IF now - lastScan > ScanEvery THEN now ELSE lastScan
          /\ verdict' = [verdict EXCEPT ![a] =
                             IF Cardinality(recent) >= Burst THEN "refused" ELSE "admitted"]
          /\ byIP' = [Scanned(now) EXCEPT ![ip] = recent \cup {a}]
    /\ UNCHANGED <<clock, stamp>>

\* allow, from the mutex on.
Allow(a) ==
    /\ verdict[a] = "stamped"
    /\ LET now    == stamp[a]
           ip     == IPOf[a]
           recent == Fresh(Scanned(now)[ip], now)
           full   == Cardinality(recent) >= Burst
       IN /\ lastScan' = IF now - lastScan > ScanEvery THEN now ELSE lastScan
          /\ verdict' = [verdict EXCEPT ![a] = IF full THEN "refused" ELSE "admitted"]
          /\ byIP' = [Scanned(now) EXCEPT ![ip] = IF full THEN recent ELSE recent \cup {a}]
    /\ UNCHANGED <<clock, stamp>>

Over ==
    /\ \A a \in Attempts : verdict[a] \in {"admitted", "refused"}
    /\ UNCHANGED vars

Next == Tick \/ (\E a \in Attempts : TakeStamp(a) \/ Allow(a)) \/ Over

Spec == Init /\ [][Next]_vars

-----------------------------------------------------------------------------
(* Properties.                                                               *)

\* Every variable stays within its type.
TypeOK ==
    /\ clock \in Nat
    /\ verdict \in [Attempts -> {"new", "stamped", "admitted", "refused"}]
    /\ stamp \in [Attempts -> 0 .. clock]
    /\ byIP \in [IPs -> SUBSET Attempts]
    /\ lastScan \in Int

\* The requests of ip admitted with a timestamp in the span that ends at t.
AdmittedIn(ip, t, span) ==
    {a \in Attempts : /\ verdict[a] = "admitted" /\ IPOf[a] = ip
                      /\ t - span < stamp[a] /\ stamp[a] <= t}

\* "Single IP limited to 20 callback attempts per minute": although timestamps
\* reach the limiter out of order and any request may drop entries of any
\* address, no window holds more than Burst admitted requests of one address.
\* The window is shorter than the limiter's by what a request can be late at the
\* mutex (within that margin the limiter may admit more).
BurstBound ==
    \A ip \in IPs : \A t \in 0 .. clock :
        Cardinality(AdmittedIn(ip, t, Window - MaxDelay)) <= Burst

\* A request is refused only for requests of its own address that were admitted
\* within the window: refused ones, and other addresses, do not count against it.
RefusedOnlyWhenFull ==
    [][\A a \in Attempts :
          verdict[a] # "refused" /\ verdict'[a] = "refused" =>
              Cardinality({b \in Attempts :
                  /\ verdict[b] = "admitted" /\ IPOf[b] = IPOf[a]
                  /\ stamp[b] > stamp[a] - Window}) >= Burst]_vars
=============================================================================
