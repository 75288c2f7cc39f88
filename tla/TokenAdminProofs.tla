--------------------------- MODULE TokenAdminProofs ---------------------------
(***************************************************************************)
(* The token file follows the token map, a page keeps a login the server   *)
(* knows, and one that waits for nothing shows the tokens the server has,  *)
(* for any devices, requests, logins and crashes.                          *)
(***************************************************************************)
EXTENDS TokenAdmin, TLAPS

Stages == {"sent", "lost"} \cup Saving \cup Done
Table  == [Devices -> Secrets \cup {None}]
Req == [kind: {"login", "agents", "list"} \cup Write, session: Nat,
        dev: Devices \cup {None}, secret: Secrets \cup {None}, stage: Stages, toks: Table,
        rest: BOOLEAN, own: BOOLEAN, late: BOOLEAN]

\* The types of the server's and of the page's state, and of what is under way.
ServerTypes ==
    /\ tokens \in Table
    /\ hasPassword \in BOOLEAN /\ up \in BOOLEAN /\ overlapped \in BOOLEAN /\ cutShort \in BOOLEAN
    /\ unsaved \in BOOLEAN
    /\ file \in [rest: BOOLEAN, toks: Table]
    /\ logins \in 0 .. MaxLogins /\ restarts \in 0 .. MaxRestarts
    /\ sessions \subseteq 1 .. logins

PageTypes ==
    /\ table \in Table
    /\ loginLoading \in BOOLEAN /\ behind \in BOOLEAN
    /\ token \in 0 .. logins /\ writes \in 0 .. MaxWrites

FlightTypes == flight \in Seq(Req) /\ Len(flight) <= MaxFlight

\* A request of the page goes by a login that was made, a session the server has
\* refused is gone for good, only a write is ever being saved, and a fetch does not
\* fail.  One of another page has been taken by the server.
Honest(r, known, last) ==
    /\ r.session <= last
    /\ r.own /\ r.kind # "login" => r.session # 0
    /\ ~r.own => r.kind \in Write /\ r.stage \in Saving \cup {"ok", "lost"}
    /\ r.kind = "login" /\ r.stage = "ok" => r.session # 0
    /\ r.stage = "refused" => r.kind # "login" /\ r.session \notin known
    /\ r.stage \in Saving \cup {"lost"} => r.kind \in Write
    /\ r.kind \in {"agents", "list"} => r.stage \in {"sent", "ok", "refused"}

FlightHonest == \A i \in DOMAIN flight : Honest(flight[i], sessions, logins)

\* One save at a time, and how far it has come.
OneSave ==
    ~overlapped => \A i, j \in DOMAIN flight :
                      flight[i].stage \in Saving /\ flight[j].stage \in Saving => i = j

Progress(r, ts, f) ==
    /\ r.stage \in {"copied", "read", "cut"} => r.toks = ts
    /\ r.stage \in {"read", "cut"} => r.rest = TRUE
    /\ r.stage \in {"applied", "copied", "read"} => f.rest = TRUE
    /\ r.stage = "cut" => f = Broken

SaveProgress == ~overlapped /\ ~cutShort => \A i \in DOMAIN flight : Progress(flight[i], tokens, file)

\* What the file has when no save is under way.
Follows(f, ts, gaveUp) == f.rest = TRUE /\ (gaveUp \/ f.toks = ts)

SaveInv == OneSave /\ SaveProgress /\ FileFollowsTheMap

AdminTypes == ServerTypes /\ PageTypes /\ FlightTypes
AdminInv   == AdminTypes /\ FlightHonest /\ SaveInv

------------------------------------------------------------------------------
(* Requests under way.                                                      *)

\* The parts give the type invariant of the module.
LEMMA TypesAreTypeOK == AdminTypes /\ FlightHonest => TypeOK
<1> SUFFICES ASSUME AdminTypes, FlightHonest PROVE TypeOK
      OBVIOUS
<1>1. {tokens, table, file.toks} \subseteq [Devices -> Secrets \cup {None}]
      BY DEF AdminTypes, ServerTypes, PageTypes, Table
<1>2. {hasPassword, up, loginLoading, file.rest, overlapped, cutShort, unsaved, behind}
         \subseteq BOOLEAN
      BY DEF AdminTypes, ServerTypes, PageTypes
<1>3. \A i \in DOMAIN flight :
           /\ flight[i].kind \in {"login", "agents", "list"} \cup Write
           /\ flight[i].stage \in {"sent", "lost"} \cup Saving \cup Done
           /\ flight[i].session \in 0 .. logins
  <2> TAKE i \in DOMAIN flight
  <2>1. flight[i] \in Req
        BY DEF AdminTypes, FlightTypes
  <2>2. flight[i].session <= logins /\ logins \in Nat
        BY AdminAssumption DEF FlightHonest, Honest, AdminTypes, ServerTypes
  <2> QED
        BY <2>1, <2>2 DEF Req, Stages
<1> QED
      BY <1>1, <1>2, <1>3 DEF TypeOK, AdminTypes, ServerTypes, PageTypes, FlightTypes

\* The parts of what is put together.
LEMMA Joined ==
    ASSUME NEW T, NEW a \in Seq(T), NEW b \in Seq(T)
    PROVE  /\ a \o b \in Seq(T) /\ Len(a \o b) = Len(a) + Len(b)
           /\ DOMAIN (a \o b) = 1 .. Len(a) + Len(b) /\ Len(a) \in Nat /\ Len(b) \in Nat
           /\ \A j \in 1 .. Len(a) + Len(b) :
                  (a \o b)[j] = IF j <= Len(a) THEN a[j] ELSE b[j - Len(a)]
      OBVIOUS

\* What is left when one is taken out, and where it was.
LEMMA Removed ==
    ASSUME NEW T, NEW s \in Seq(T), NEW i \in DOMAIN s
    PROVE  /\ RemoveAt(s, i) \in Seq(T) /\ Len(RemoveAt(s, i)) = Len(s) - 1
           /\ \A j \in 1 .. Len(s) - 1 : RemoveAt(s, i)[j] = IF j < i THEN s[j] ELSE s[j + 1]
<1> DEFINE a == SubSeq(s, 1, i - 1)
           b == SubSeq(s, i + 1, Len(s))
<1>1. i \in 1 .. Len(s) /\ Len(s) \in Nat
      OBVIOUS
<1>2. a \in Seq(T) /\ Len(a) = i - 1 /\ \A j \in 1 .. i - 1 : a[j] = s[j]
      BY <1>1
<1>3. b \in Seq(T) /\ Len(b) = Len(s) - i /\ \A j \in 1 .. Len(s) - i : b[j] = s[i + j]
      BY <1>1
<1>4. RemoveAt(s, i) = a \o b
      BY DEF RemoveAt
<1> HIDE DEF a, b
<1>5. a \o b \in Seq(T) /\ Len(a \o b) = Len(s) - 1
      BY <1>1, <1>2, <1>3
<1>6. ASSUME NEW j \in 1 .. Len(s) - 1
      PROVE  (a \o b)[j] = IF j < i THEN s[j] ELSE s[j + 1]
  <2>4. \A m \in 1 .. Len(a) + Len(b) :
             (a \o b)[m] = IF m <= Len(a) THEN a[m] ELSE b[m - Len(a)]
        BY <1>2, <1>3, Joined
  <2>5. Len(a) + Len(b) = Len(s) - 1
        BY <1>1, <1>2, <1>3
  <2>0. (a \o b)[j] = IF j <= Len(a) THEN a[j] ELSE b[j - Len(a)]
        BY <2>4, <2>5
  <2>1. CASE j < i
        BY <1>1, <1>2, <2>0, <2>1
  <2>2. CASE j >= i
    <3>1. (a \o b)[j] = b[j - (i - 1)]
          BY <1>1, <1>2, <2>0, <2>2
    <3>2. j - (i - 1) \in 1 .. Len(s) - i
          BY <1>1, <2>2
    <3>3. b[j - (i - 1)] = s[i + (j - (i - 1))]
          BY <1>3, <3>2
    <3>4. i + (j - (i - 1)) = j + 1
          BY <1>1
    <3>5. (a \o b)[j] = s[j + 1]
          BY <3>1, <3>3, <3>4, Zenon
    <3>6. ~ (j < i)
          BY <1>1, <2>2
    <3> QED
          BY <3>5, <3>6
  <2>3. j < i \/ j >= i
        BY <1>1
  <2> QED
        BY <2>1, <2>2, <2>3, Zenon
<1> QED
      BY <1>4, <1>5, <1>6

\* The same request, as far as the server goes.
Same(r, q) == /\ r.kind = q.kind /\ r.session = q.session /\ r.stage = q.stage /\ r.own = q.own
              /\ r.toks = q.toks /\ r.rest = q.rest

\* What is under way after a step of the page: requests of before, in the places src
\* tells, and new ones.  None that is being saved is left out.
Carried(new, src) ==
    /\ src \in [DOMAIN new -> Nat]
    /\ \A j \in DOMAIN new :
          \/ src[j] \in DOMAIN flight /\ Same(new[j], flight[src[j]])
          \/ src[j] = 0 /\ new[j].stage = "sent" /\ Honest(new[j], sessions, logins)
    /\ \A j, k \in DOMAIN new : src[j] = src[k] /\ src[j] # 0 => j = k
    /\ \A k \in DOMAIN flight : flight[k].stage \in Saving => \E j \in DOMAIN new : src[j] = k

\* A step of the page leaves the server's part of the invariant.
LEMMA CarriedInv ==
    ASSUME ServerTypes, FlightTypes, FlightHonest, SaveInv, UNCHANGED serverVars,
           NEW src, Carried(flight', src)
    PROVE  FlightHonest' /\ SaveInv'
<1> USE DEF serverVars
<1>0. DOMAIN flight \subseteq Nat \ {0}
      BY DEF FlightTypes
<1>1. FlightHonest'
  <2> SUFFICES ASSUME NEW j \in DOMAIN flight' PROVE Honest(flight'[j], sessions, logins)
        BY DEF FlightHonest, Honest
  <2>1. CASE src[j] \in DOMAIN flight /\ Same(flight'[j], flight[src[j]])
        BY <2>1 DEF FlightHonest, Honest, Same
  <2>2. CASE Honest(flight'[j], sessions, logins)
        BY <2>2
  <2> QED
        BY <2>1, <2>2 DEF Carried
<1>2. \A j \in DOMAIN flight' : flight'[j].stage \in Saving =>
           /\ src[j] \in DOMAIN flight /\ src[j] # 0 /\ Same(flight'[j], flight[src[j]])
      BY <1>0 DEF Carried, Saving
<1>3. OneSave'
  <2> SUFFICES ASSUME ~overlapped, NEW j \in DOMAIN flight', NEW k \in DOMAIN flight',
                      flight'[j].stage \in Saving, flight'[k].stage \in Saving
               PROVE  j = k
        BY DEF OneSave
  <2>1. src[j] = src[k]
        BY <1>2 DEF SaveInv, OneSave, Same
  <2> QED
        BY <1>2, <2>1 DEF Carried
<1>4. SaveProgress'
  <2> SUFFICES ASSUME ~overlapped, ~cutShort, NEW j \in DOMAIN flight',
                      flight'[j].stage \in Saving
               PROVE  Progress(flight'[j], tokens, file)
        BY DEF SaveProgress, Progress, Saving
  <2>1. src[j] \in DOMAIN flight /\ Same(flight'[j], flight[src[j]])
        BY <1>2
  <2> QED
        BY <2>1 DEF SaveInv, SaveProgress, Progress, Same
<1>5. FileFollowsTheMap'
  <2>1. Settled' => Settled
    <3> SUFFICES ASSUME NEW k \in DOMAIN flight, flight[k].stage \in Saving PROVE ~Settled'
          BY DEF Settled
    <3>1. PICK j \in DOMAIN flight' : src[j] = k
          BY DEF Carried
    <3>2. Same(flight'[j], flight[k])
          BY <1>0, <3>1 DEF Carried
    <3> QED
          BY <3>2 DEF Settled, Same
  <2> QED
        BY <2>1 DEF SaveInv, FileFollowsTheMap, Config
<1> QED
      BY <1>1, <1>3, <1>4, <1>5 DEF SaveInv

\* The requests a step sends.
Fresh(reqs) == /\ reqs \in Seq(Req)
               /\ \A j \in DOMAIN reqs : reqs[j].stage = "sent" /\ Honest(reqs[j], sessions, logins)

\* An answer is taken, others are perhaps marked late, and requests follow.
LEMMA Answered ==
    ASSUME FlightTypes, NEW i \in DOMAIN flight, NEW fl \in Seq(Req), Len(fl) = Len(flight),
           NEW reqs \in Seq(Req)
    PROVE  LET n   == Len(flight) - 1
               new == RemoveAt(fl, i) \o reqs
           IN
           /\ n \in Nat /\ i \in 1 .. n + 1 /\ DOMAIN flight = 1 .. n + 1
           /\ new \in Seq(Req) /\ Len(new) = n + Len(reqs) /\ DOMAIN new = 1 .. n + Len(reqs)
           /\ Len(reqs) \in Nat
           /\ \A j \in 1 .. n : new[j] = IF j < i THEN fl[j] ELSE fl[j + 1]
           /\ \A j \in n + 1 .. n + Len(reqs) : new[j] = reqs[j - n] /\ j - n \in DOMAIN reqs
<1> DEFINE n   == Len(flight) - 1
           cut == RemoveAt(fl, i)
           new == cut \o reqs
<1>1. n \in Nat /\ i \in 1 .. n + 1 /\ DOMAIN flight = 1 .. n + 1 /\ i \in DOMAIN fl
      BY DEF FlightTypes
<1>2. /\ cut \in Seq(Req) /\ Len(cut) = n
      /\ \A j \in 1 .. n : cut[j] = IF j < i THEN fl[j] ELSE fl[j + 1]
      BY <1>1, Removed
<1> HIDE DEF cut
<1>4. /\ cut \o reqs \in Seq(Req) /\ Len(cut \o reqs) = Len(cut) + Len(reqs)
      /\ DOMAIN (cut \o reqs) = 1 .. Len(cut) + Len(reqs) /\ Len(reqs) \in Nat
      /\ \A j \in 1 .. Len(cut) + Len(reqs) :
             (cut \o reqs)[j] = IF j <= Len(cut) THEN cut[j] ELSE reqs[j - Len(cut)]
  <2>1. cut \in Seq(Req) /\ reqs \in Seq(Req)
        BY <1>2
  <2> QED
        BY <2>1, Joined, Zenon
<1>5. /\ new \in Seq(Req) /\ Len(new) = n + Len(reqs) /\ DOMAIN new = 1 .. n + Len(reqs)
      /\ \A j \in 1 .. n + Len(reqs) : new[j] = IF j <= n THEN cut[j] ELSE reqs[j - n]
      BY <1>2, <1>4
<1>6. ASSUME NEW j \in 1 .. n PROVE new[j] = cut[j]
  <2>1. j \in 1 .. n + Len(reqs) /\ j <= n
        BY <1>1, <1>4
  <2> QED
        BY <1>5, <2>1
<1>7. \A j \in n + 1 .. n + Len(reqs) : new[j] = reqs[j - n] /\ j - n \in DOMAIN reqs
      BY <1>1, <1>4, <1>5
<1>8. \A j \in 1 .. n : new[j] = IF j < i THEN fl[j] ELSE fl[j + 1]
      BY <1>2, <1>6
<1> HIDE DEF new, n
<1>9. /\ n \in Nat /\ i \in 1 .. n + 1 /\ DOMAIN flight = 1 .. n + 1
      /\ new \in Seq(Req) /\ Len(new) = n + Len(reqs) /\ DOMAIN new = 1 .. n + Len(reqs)
      /\ Len(reqs) \in Nat
      /\ \A j \in 1 .. n : new[j] = IF j < i THEN fl[j] ELSE fl[j + 1]
      /\ \A j \in n + 1 .. n + Len(reqs) : new[j] = reqs[j - n] /\ j - n \in DOMAIN reqs
      BY <1>1, <1>4, <1>5, <1>7, <1>8, Zenon
<1> QED
      BY <1>9, Zenon DEF n, new, cut

\* So do the requests that are left, each where it was or one place before.
LEMMA AnsweredCarries ==
    ASSUME FlightTypes, NEW i \in DOMAIN flight, flight[i].stage \notin Saving,
           NEW fl \in Seq(Req), Len(fl) = Len(flight),
           \A j \in DOMAIN flight : Same(fl[j], flight[j]),
           NEW reqs, Fresh(reqs), NEW new, new = RemoveAt(fl, i) \o reqs
    PROVE  new \in Seq(Req) /\ \E src : Carried(new, src)
<1> DEFINE n   == Len(flight) - 1
           src == [j \in DOMAIN new |-> IF j <= n THEN (IF j < i THEN j ELSE j + 1) ELSE 0]
<1>0. reqs \in Seq(Req)
      BY DEF Fresh
<1>1. n \in Nat /\ i \in 1 .. n + 1 /\ DOMAIN flight = 1 .. n + 1
      BY DEF FlightTypes
<1>3. /\ new \in Seq(Req) /\ Len(new) = n + Len(reqs) /\ DOMAIN new = 1 .. n + Len(reqs)
      /\ Len(reqs) \in Nat
      /\ \A j \in 1 .. n : new[j] = IF j < i THEN fl[j] ELSE fl[j + 1]
      /\ \A j \in n + 1 .. n + Len(reqs) : new[j] = reqs[j - n] /\ j - n \in DOMAIN reqs
  <2> DEFINE res == RemoveAt(fl, i) \o reqs
  <2>1. /\ res \in Seq(Req) /\ Len(res) = n + Len(reqs) /\ DOMAIN res = 1 .. n + Len(reqs)
        /\ Len(reqs) \in Nat
        /\ \A j \in 1 .. n : res[j] = IF j < i THEN fl[j] ELSE fl[j + 1]
        /\ \A j \in n + 1 .. n + Len(reqs) : res[j] = reqs[j - n] /\ j - n \in DOMAIN reqs
        BY <1>0, Answered, Zenon
  <2>2. new = res
        OBVIOUS
  <2> HIDE DEF res, n
  <2> QED
        BY <2>1, <2>2, Zenon
<1>4. src \in [DOMAIN new -> Nat]
      BY <1>1, <1>3
<1>5. ASSUME NEW j \in DOMAIN new
      PROVE  \/ src[j] \in DOMAIN flight /\ Same(new[j], flight[src[j]])
             \/ src[j] = 0 /\ new[j].stage = "sent" /\ Honest(new[j], sessions, logins)
  <2>1. CASE j <= n
    <3> DEFINE k == IF j < i THEN j ELSE j + 1
    <3>1. j \in 1 .. n /\ k \in DOMAIN flight /\ src[j] = k
          BY <1>1, <1>3, <2>1
    <3>2. new[j] = fl[k]
          BY <1>3, <3>1
    <3> QED
          BY <3>1, <3>2
  <2>2. CASE j > n
        BY <1>1, <1>3, <2>2 DEF Fresh
  <2> QED
        BY <1>1, <1>3, <2>1, <2>2
<1>6. ASSUME NEW j \in DOMAIN new, NEW k \in DOMAIN new, src[j] = src[k], src[j] # 0
      PROVE  j = k
  <2>1. j \in Nat /\ k \in Nat /\ j <= n /\ k <= n
        BY <1>1, <1>3, <1>6
  <2>2. /\ src[j] = IF j < i THEN j ELSE j + 1
        /\ src[k] = IF k < i THEN k ELSE k + 1
        BY <2>1
  <2> QED
        BY <1>1, <1>6, <2>1, <2>2
<1>7. ASSUME NEW k \in DOMAIN flight, flight[k].stage \in Saving
      PROVE  \E j \in DOMAIN new : src[j] = k
  <2>1. k # i
        BY <1>7
  <2>2. CASE k < i
    <3>1. k \in DOMAIN new /\ k <= n
          BY <1>1, <1>3, <2>2
    <3> QED
          BY <2>2, <3>1
  <2>3. CASE k > i
    <3>1. k - 1 \in DOMAIN new /\ k - 1 <= n /\ ~ (k - 1 < i)
          BY <1>1, <1>3, <2>3
    <3>2. src[k - 1] = k
          BY <1>1, <3>1
    <3> QED
          BY <3>1, <3>2
  <2>4. k < i \/ k > i
        BY <1>1, <2>1
  <2> QED
        BY <2>2, <2>3, <2>4, Zenon
<1>8. Carried(new, src)
      BY <1>4, <1>5, <1>6, <1>7 DEF Carried
<1> QED
      BY <1>3, <1>8

\* Requests are sent of the page's own accord.
LEMMA SentCarries ==
    ASSUME FlightTypes, NEW reqs, Fresh(reqs), NEW new, new = flight \o reqs
    PROVE  new \in Seq(Req) /\ \E src : Carried(new, src)
<1> DEFINE n   == Len(flight)
           src == [j \in DOMAIN new |-> IF j <= n THEN j ELSE 0]
<1>1. n \in Nat /\ DOMAIN flight = 1 .. n
      BY DEF FlightTypes
<1>2. /\ new \in Seq(Req) /\ Len(new) = n + Len(reqs) /\ DOMAIN new = 1 .. n + Len(reqs)
      /\ Len(reqs) \in Nat
      /\ \A j \in 1 .. n : new[j] = flight[j]
      /\ \A j \in n + 1 .. n + Len(reqs) : new[j] = reqs[j - n] /\ j - n \in DOMAIN reqs
      BY DEF Fresh, FlightTypes
<1>3. ASSUME NEW j \in DOMAIN new
      PROVE  \/ src[j] \in DOMAIN flight /\ Same(new[j], flight[src[j]])
             \/ src[j] = 0 /\ new[j].stage = "sent" /\ Honest(new[j], sessions, logins)
      BY <1>1, <1>2 DEF Fresh, Same
<1>4. Carried(new, src)
      BY <1>1, <1>2, <1>3 DEF Carried
<1> QED
      BY <1>2, <1>4

\* A handler changes one request.
Touched(i, r) == /\ flight' \in Seq(Req) /\ Len(flight') = Len(flight)
                 /\ DOMAIN flight' = DOMAIN flight /\ flight'[i] = r
                 /\ \A j \in DOMAIN flight : j # i => flight'[j] = flight[j]

\* A request replaced in its place.
LEMMA OneTouched ==
    ASSUME FlightTypes, NEW i \in DOMAIN flight, NEW r \in Req,
           flight' = [flight EXCEPT ![i] = r]
    PROVE  Touched(i, r)
      BY DEF FlightTypes, Touched

\* No session that is gone comes back.
TouchedHonestly(i, r) ==
    /\ Touched(i, r) /\ Honest(r, sessions', logins')
    /\ logins' \in Nat /\ logins <= logins' /\ \A n \in sessions' : n <= logins => n \in sessions

\* A request that is changed honestly leaves the flight well-typed and honest.
LEMMA TouchedFlight ==
    ASSUME ServerTypes, FlightTypes, FlightHonest, NEW i \in DOMAIN flight, NEW r, TouchedHonestly(i, r)
    PROVE  FlightTypes' /\ FlightHonest'
<1>1. FlightTypes'
      BY DEF TouchedHonestly, Touched, FlightTypes
<1>2. ASSUME NEW j \in DOMAIN flight' PROVE Honest(flight'[j], sessions', logins')
  <2>1. CASE j = i
        BY <2>1 DEF TouchedHonestly, Touched
  <2>2. CASE j # i
    <3>1. flight'[j] = flight[j] /\ Honest(flight[j], sessions, logins) /\ flight[j] \in Req
          BY <2>2 DEF TouchedHonestly, Touched, FlightHonest, FlightTypes
    <3>2. flight[j].session \in Nat /\ logins \in Nat
          BY <3>1, AdminAssumption DEF Req, ServerTypes
    <3> QED
          BY <3>1, <3>2 DEF TouchedHonestly, Honest
  <2> QED
        BY <2>1, <2>2
<1> QED
      BY <1>1, <1>2 DEF FlightHonest

\* One request is changed, and was not being saved.
LEMMA ChangedSaveInv ==
    ASSUME SaveInv, UNCHANGED <<tokens, file, overlapped, cutShort, unsaved>>,
           NEW i \in DOMAIN flight, flight[i].stage \notin Saving,
           NEW r, r.stage \notin Saving, Touched(i, r)
    PROVE  SaveInv'
<1>1. OneSave' /\ SaveProgress'
      BY DEF SaveInv, OneSave, SaveProgress, Progress, Saving, Touched
<1>2. Settled' => Settled
      BY DEF Settled, Touched
<1> QED
      BY <1>1, <1>2 DEF SaveInv, FileFollowsTheMap, Config

------------------------------------------------------------------------------
\* At the start nobody is logged in, nothing is under way, the file is whole.
LEMMA InitAdminInv == Init => AdminInv
<1> SUFFICES ASSUME Init PROVE AdminInv
      OBVIOUS
<1> USE AdminAssumption DEF Init
<1>1. NoTokens \in Table /\ tokens \in Table
      BY DEF NoTokens, Table
<1>2. Config(tokens) \in [rest: BOOLEAN, toks: Table] /\ {} \subseteq 1 .. logins
      BY <1>1 DEF Config
<1>7. 0 \in 0 .. MaxLogins /\ 0 \in 0 .. MaxRestarts /\ 0 \in 0 .. MaxWrites /\ 0 \in 0 .. logins
      OBVIOUS
<1>4. ServerTypes
      BY <1>1, <1>2, <1>7 DEF ServerTypes
<1>5. PageTypes
      BY <1>1, <1>7 DEF PageTypes
<1>6. FlightTypes
      BY DEF FlightTypes
<1>3. FlightHonest /\ SaveInv
      BY DEF FlightHonest, SaveInv, OneSave, SaveProgress, FileFollowsTheMap, Config
<1> QED
      BY <1>3, <1>4, <1>5, <1>6 DEF AdminInv, AdminTypes

------------------------------------------------------------------------------
(* The server's steps.                                                      *)

\* What a handler may assume of its request.
LEMMA Asked ==
    ASSUME AdminTypes, FlightHonest, NEW i \in DOMAIN flight
    PROVE  /\ flight[i] \in Req /\ Honest(flight[i], sessions, logins) /\ logins \in Nat
           /\ flight[i].session \in 0 .. logins /\ flight[i].toks \in Table
           /\ flight[i].rest \in BOOLEAN /\ flight[i].secret \in Secrets \cup {None}
<1>1. flight[i] \in Req
      BY DEF AdminTypes, FlightTypes
<1>2. Honest(flight[i], sessions, logins)
      BY DEF FlightHonest
<1>3. logins \in Nat
      BY AdminAssumption DEF AdminTypes, ServerTypes
<1>4. flight[i].session \in 0 .. logins
      BY <1>1, <1>2, <1>3 DEF Honest, Req
<1> QED
      BY <1>1, <1>2, <1>3, <1>4 DEF Req

\* handleAdminLogin.
LEMMA LoginStep ==
    ASSUME AdminInv, NEW i \in DOMAIN flight, ServeLogin(i)
    PROVE  ServerTypes' /\ FlightTypes' /\ FlightHonest' /\ SaveInv'
<1> USE DEF AdminInv, AdminTypes
<1>3. flight[i].stage = "sent" /\ flight[i].kind = "login"
      BY DEF ServeLogin
<1>0. /\ flight[i] \in Req /\ Honest(flight[i], sessions, logins) /\ logins \in Nat
      /\ flight[i].stage = "sent" /\ flight[i].kind = "login"
      BY Asked, <1>3
<1>1. CASE /\ logins < MaxLogins /\ logins' = logins + 1
           /\ sessions' = sessions \cup {logins + 1}
           /\ flight' = [flight EXCEPT ![i].stage = "ok", ![i].session = logins + 1]
  <2> DEFINE r == [flight[i] EXCEPT !.stage = "ok", !.session = logins + 1]
  <2>0. logins + 1 \in Nat /\ "ok" \in Stages
        BY <1>0 DEF Stages, Done
  <2>1. /\ r \in Req /\ r.kind = "login" /\ r.stage = "ok" /\ r.session = logins + 1
        /\ r.own = flight[i].own
        BY <1>0, <2>0 DEF Req
  <2> HIDE DEF r
  <2>2. flight' = [flight EXCEPT ![i] = r]
        BY <1>0, <1>1 DEF r, FlightTypes
  <2>3. Touched(i, r)
        BY <2>1, <2>2, OneTouched
  <2>4. ServerTypes'
        BY <1>0, <1>1, AdminAssumption DEF ServerTypes, ServeLogin
  <2>5. TouchedHonestly(i, r)
        BY <1>0, <1>1, <2>1, <2>3 DEF TouchedHonestly, Honest, Saving, Write, ServerTypes
  <2>6. SaveInv'
        BY <1>0, <2>1, <2>3, ChangedSaveInv DEF Saving, ServeLogin
  <2> QED
        BY <2>4, <2>5, <2>6, TouchedFlight
<1>2. CASE Advance(i, "failed") /\ UNCHANGED <<logins, sessions>>
  <2> DEFINE r == [flight[i] EXCEPT !.stage = "failed"]
  <2>1. /\ r \in Req /\ r.kind = "login" /\ r.stage = "failed" /\ r.session = flight[i].session
        /\ r.own = flight[i].own
        BY <1>0 DEF Req, Stages, Done
  <2> HIDE DEF r
  <2>2. flight' = [flight EXCEPT ![i] = r]
        BY <1>0, <1>2 DEF r, FlightTypes, Advance
  <2>3. Touched(i, r)
        BY <2>1, <2>2, OneTouched
  <2>4. ServerTypes'
        BY <1>2 DEF ServerTypes, ServeLogin
  <2>5. TouchedHonestly(i, r)
        BY <1>0, <1>2, <2>1, <2>3 DEF TouchedHonestly, Honest, Saving, Write
  <2>6. SaveInv'
        BY <1>0, <2>1, <2>3, ChangedSaveInv DEF Saving, ServeLogin
  <2> QED
        BY <2>4, <2>5, <2>6, TouchedFlight
<1> QED
      BY <1>1, <1>2 DEF ServeLogin

\* requireAdmin, when it refuses.
LEMMA RefuseStep ==
    ASSUME AdminInv, NEW i \in DOMAIN flight, Refuse(i)
    PROVE  ServerTypes' /\ FlightTypes' /\ FlightHonest' /\ SaveInv'
<1> USE DEF AdminInv, AdminTypes, Refuse, serverVars
<1> DEFINE r == [flight[i] EXCEPT !.stage = "refused"]
<1>0. /\ flight[i] \in Req /\ Honest(flight[i], sessions, logins) /\ logins \in Nat /\ flight[i].stage = "sent"
      BY Asked
<1>1. /\ r \in Req /\ r.kind = flight[i].kind /\ r.stage = "refused"
      /\ r.session = flight[i].session
      /\ r.own = flight[i].own
      BY <1>0 DEF Req, Stages, Done
<1> HIDE DEF r
<1>2. flight' = [flight EXCEPT ![i] = r]
      BY <1>0 DEF r, FlightTypes, Advance
<1>3. Touched(i, r)
      BY <1>1, <1>2, OneTouched
<1>4. ServerTypes'
      BY DEF ServerTypes
<1>5. TouchedHonestly(i, r)
      BY <1>0, <1>1, <1>3 DEF TouchedHonestly, Honest, Saving, Write
<1>6. SaveInv'
      BY <1>0, <1>1, <1>3, ChangedSaveInv DEF Saving
<1> QED
      BY <1>4, <1>5, <1>6, TouchedFlight

\* handleAdminAgents and handleAdminTokensList.
LEMMA GetStep ==
    ASSUME AdminInv, NEW i \in DOMAIN flight, ServeGet(i)
    PROVE  ServerTypes' /\ FlightTypes' /\ FlightHonest' /\ SaveInv'
<1> USE DEF AdminInv, AdminTypes, ServeGet, Admitted, serverVars
<1> DEFINE ts == IF flight[i].kind = "list" THEN tokens ELSE NoTokens
           r  == [flight[i] EXCEPT !.stage = "ok", !.toks = ts]
<1>0. /\ flight[i] \in Req /\ Honest(flight[i], sessions, logins) /\ logins \in Nat /\ flight[i].stage = "sent"
      BY Asked
<1>7. ts \in Table
      BY DEF ServerTypes, NoTokens, Table
<1> HIDE DEF ts
<1>1. /\ r \in Req /\ r.kind = flight[i].kind /\ r.stage = "ok"
      /\ r.session = flight[i].session
      /\ r.own = flight[i].own
      BY <1>0, <1>7 DEF Req, Stages, Done
<1> HIDE DEF r
<1>2. flight' = [flight EXCEPT ![i] = r]
      BY <1>0 DEF r, ts, FlightTypes
<1>3. Touched(i, r)
      BY <1>1, <1>2, OneTouched
<1>4. ServerTypes'
      BY DEF ServerTypes
<1>5. TouchedHonestly(i, r)
      BY <1>0, <1>1, <1>3 DEF TouchedHonestly, Honest, Saving, Write
<1>6. SaveInv'
      BY <1>0, <1>1, <1>3, ChangedSaveInv DEF Saving
<1> QED
      BY <1>4, <1>5, <1>6, TouchedFlight
\* One save goes on by a step, and, as long as none overlapped it, alone.
LEMMA SaverAlone ==
    ASSUME OneSave, ~overlapped, NEW i \in DOMAIN flight, flight[i].stage \in Saving
    PROVE  ~InSave(i)
      BY DEF OneSave, InSave

\* A step of a save that keeps its own progress keeps the invariant of the saves.
LEMMA LoneSave ==
    ASSUME NEW i \in DOMAIN flight, NEW r, Touched(i, r),
           ~overlapped' => ~InSave(i),
           ~overlapped' /\ ~cutShort' =>
               /\ Progress(r, tokens', file')
               /\ r.stage \notin Saving => Follows(file', tokens', unsaved')
    PROVE  SaveInv'
<1>1. ~overlapped' => \A j \in DOMAIN flight' : j # i => flight'[j].stage \notin Saving
      BY DEF Touched, InSave
<1>2. OneSave'
      BY <1>1 DEF OneSave
<1>3. SaveProgress'
  <2> SUFFICES ASSUME ~overlapped', ~cutShort', NEW j \in DOMAIN flight'
               PROVE  Progress(flight'[j], tokens', file')
        BY DEF SaveProgress
  <2>1. CASE j = i
    <3>1. Progress(r, tokens', file')
          BY Zenon
    <3>2. flight'[j] = r
          BY <2>1 DEF Touched
    <3> QED
          BY <3>1, <3>2 DEF Progress
  <2>2. CASE j # i
    <3>1. flight'[j].stage \notin Saving
          BY <1>1, <2>2
    <3> QED
          BY <3>1 DEF Progress, Saving
  <2> QED
        BY <2>1, <2>2
<1>4. FileFollowsTheMap'
  <2> SUFFICES ASSUME ~overlapped', ~cutShort', Settled' PROVE Follows(file', tokens', unsaved')
        BY DEF FileFollowsTheMap, Follows
  <2>1. r.stage \notin Saving
        BY DEF Settled, Touched
  <2> QED
        BY <2>1, Zenon
<1> QED
      BY <1>2, <1>3, <1>4 DEF SaveInv

\* The critical sections of the three writes.
LEMMA ApplyStep ==
    ASSUME AdminInv, NEW i \in DOMAIN flight, Apply(i)
    PROVE  ServerTypes' /\ FlightTypes' /\ FlightHonest' /\ SaveInv'
<1> USE DEF AdminInv, AdminTypes
<1>0. flight[i].stage = "sent" /\ flight[i].kind \in Write
      BY DEF Apply, Admitted
<1>1. /\ flight[i] \in Req /\ Honest(flight[i], sessions, logins) /\ logins \in Nat
      /\ flight[i].secret \in Secrets \cup {None}
      BY Asked
<1>2. UNCHANGED <<sessions, logins, hasPassword, up, restarts, file, cutShort, unsaved>>
      BY DEF Apply, pageVars
<1>3. CASE Advance(i, "failed") /\ UNCHANGED <<tokens, overlapped>>
  <2> DEFINE r == [flight[i] EXCEPT !.stage = "failed"]
  <2>1. /\ r \in Req /\ r.kind = flight[i].kind /\ r.stage = "failed" /\ r.session = flight[i].session
        /\ r.own = flight[i].own
        BY <1>1 DEF Req, Stages, Done
  <2> HIDE DEF r
  <2>2. flight' = [flight EXCEPT ![i] = r]
        BY <1>3 DEF r, FlightTypes, Advance
  <2>3. Touched(i, r)
        BY <2>1, <2>2, OneTouched
  <2>4. ServerTypes'
        BY <1>2, <1>3 DEF ServerTypes
  <2>5. TouchedHonestly(i, r)
        BY <1>0, <1>1, <1>2, <2>1, <2>3 DEF TouchedHonestly, Honest, Saving, Write
  <2>6. SaveInv'
        BY <1>0, <1>2, <1>3, <2>1, <2>3, ChangedSaveInv DEF Saving
  <2> QED
        BY <2>4, <2>5, <2>6, TouchedFlight
<1>4. CASE /\ tokens' = [tokens EXCEPT ![flight[i].dev] = flight[i].secret]
           /\ Advance(i, "applied") /\ overlapped' = (overlapped \/ InSave(i))
  <2> DEFINE r == [flight[i] EXCEPT !.stage = "applied"]
  <2>1. /\ r \in Req /\ r.kind = flight[i].kind /\ r.stage = "applied" /\ r.session = flight[i].session
        /\ r.own = flight[i].own
        BY <1>1 DEF Req, Stages, Saving
  <2> HIDE DEF r
  <2>2. flight' = [flight EXCEPT ![i] = r]
        BY <1>4 DEF r, FlightTypes, Advance
  <2>3. Touched(i, r)
        BY <2>1, <2>2, OneTouched
  <2>4. ServerTypes'
    <3>1. tokens' \in Table
          BY <1>1, <1>4 DEF ServerTypes, Table
    <3>2. overlapped' \in BOOLEAN
          BY <1>4, Zenon
    <3> QED
          BY <1>2, <3>1, <3>2 DEF ServerTypes
  <2>5. TouchedHonestly(i, r)
        BY <1>0, <1>1, <1>2, <2>1, <2>3 DEF TouchedHonestly, Honest, Saving, Write
  <2>6. ~overlapped' => ~overlapped /\ ~InSave(i)
        BY <1>4
  <2>7. ~overlapped' /\ ~cutShort' => file.rest = TRUE
    <3>1. ~InSave(i) => Settled
          BY <1>0 DEF InSave, Settled, Saving
    <3> QED
          BY <1>2, <2>6, <3>1 DEF SaveInv, FileFollowsTheMap, Config
  <2>8. SaveInv'
        BY <1>2, <2>1, <2>3, <2>6, <2>7, LoneSave DEF Progress, Saving
  <2> QED
        BY <2>4, <2>5, <2>8, TouchedFlight
<1> QED
      BY <1>3, <1>4 DEF Apply

\* saveTokens.
LEMMA SaveStep ==
    ASSUME AdminInv, NEW i \in DOMAIN flight,
           CopyTokens(i) \/ ReadConfig(i) \/ Truncate(i) \/ WriteConfig(i)
    PROVE  ServerTypes' /\ FlightTypes' /\ FlightHonest' /\ SaveInv'
<1> USE DEF AdminInv, AdminTypes
<1>1. /\ flight[i] \in Req /\ Honest(flight[i], sessions, logins) /\ logins \in Nat
      /\ flight[i].toks \in Table /\ flight[i].rest \in BOOLEAN
      BY Asked
<1>2. /\ flight[i].stage \in Saving
      /\ UNCHANGED <<tokens, sessions, logins, hasPassword, up, restarts, overlapped>>
      BY DEF CopyTokens, ReadConfig, Truncate, WriteConfig, Saving, serverVars
<1>3. ~overlapped' => ~InSave(i)
      BY <1>2, SaverAlone DEF SaveInv
<1>12. cutShort' \in BOOLEAN /\ unsaved' \in BOOLEAN /\ (cutShort => cutShort')
  <2> USE DEF ServerTypes, serverVars
  <2>1. CASE CopyTokens(i)
        BY <2>1 DEF CopyTokens
  <2>2. CASE ReadConfig(i)
        BY <2>2 DEF ReadConfig, GiveUpSave
  <2>3. CASE Truncate(i)
        BY <2>3 DEF Truncate, GiveUpSave
  <2>4. CASE WriteConfig(i)
    <3>1. \/ unsaved' = FALSE /\ cutShort' = cutShort
          \/ unsaved' = unsaved /\ cutShort' = TRUE
          BY <2>4, Zenon DEF WriteConfig
    <3> QED
          BY <3>1
  <2> QED
        BY <2>1, <2>2, <2>3, <2>4
<1>4. ~overlapped' /\ ~cutShort' => Progress(flight[i], tokens, file)
      BY <1>2, <1>12 DEF SaveInv, SaveProgress
<1>5. flight[i].kind \in Write
      BY <1>1, <1>2 DEF Honest
<1>6. tokens \in Table /\ file.rest \in BOOLEAN /\ NoTokens \in Table
      BY DEF ServerTypes, NoTokens, Table
<1>7. SUFFICES \E r : /\ r \in Req /\ r.kind \in Write /\ r.session = flight[i].session
                      /\ r.own = flight[i].own /\ r.stage \in Saving \cup {"ok"}
                      /\ flight' = [flight EXCEPT ![i] = r] /\ file' \in [rest: BOOLEAN, toks: Table]
                      /\ ~overlapped' /\ ~cutShort' =>
                             /\ Progress(r, tokens', file')
                             /\ r.stage \notin Saving => Follows(file', tokens', unsaved')
  <2> PICK r : /\ r \in Req /\ r.kind \in Write /\ r.session = flight[i].session
               /\ r.own = flight[i].own /\ r.stage \in Saving \cup {"ok"}
               /\ flight' = [flight EXCEPT ![i] = r] /\ file' \in [rest: BOOLEAN, toks: Table]
               /\ ~overlapped' /\ ~cutShort' =>
                      /\ Progress(r, tokens', file')
                      /\ r.stage \notin Saving => Follows(file', tokens', unsaved')
        BY <1>7
  <2>1. Touched(i, r)
        BY OneTouched
  <2>2. TouchedHonestly(i, r)
        BY <1>1, <1>2, <1>5, <2>1 DEF TouchedHonestly, Honest, Saving, Write
  <2>3. ServerTypes'
        BY <1>2, <1>12 DEF ServerTypes
  <2>4. SaveInv'
        BY <1>3, <2>1, LoneSave
  <2> QED
        BY <2>2, <2>3, <2>4, TouchedFlight
<1>8. CASE CopyTokens(i)
  <2> DEFINE r == [flight[i] EXCEPT !.stage = "copied", !.toks = tokens]
  <2>1. /\ r \in Req /\ r.kind \in Write /\ r.session = flight[i].session
        /\ r.own = flight[i].own
        /\ r.stage = "copied" /\ r.toks = tokens
        BY <1>1, <1>5, <1>6 DEF Req, Stages, Saving
  <2> HIDE DEF r
  <2>2. flight' = [flight EXCEPT ![i] = r] /\ file' = file
        BY <1>1, <1>8 DEF r, FlightTypes, CopyTokens, serverVars
  <2>3. ~overlapped' /\ ~cutShort' => file.rest = TRUE
        BY <1>4, <1>8 DEF Progress, CopyTokens
  <2>4. file' \in [rest: BOOLEAN, toks: Table]
        BY <2>2 DEF ServerTypes
  <2> QED
        BY <1>2, <2>1, <2>2, <2>3, <2>4 DEF Progress, Saving
<1>13. ASSUME GiveUpSave(i), flight[i].stage # "cut", UNCHANGED cutShort
       PROVE  \E r : /\ r \in Req /\ r.kind \in Write /\ r.session = flight[i].session
                     /\ r.own = flight[i].own /\ r.stage \in Saving \cup {"ok"}
                     /\ flight' = [flight EXCEPT ![i] = r] /\ file' \in [rest: BOOLEAN, toks: Table]
                     /\ ~overlapped' /\ ~cutShort' =>
                            /\ Progress(r, tokens', file')
                            /\ r.stage \notin Saving => Follows(file', tokens', unsaved')
  <2> DEFINE r == [flight[i] EXCEPT !.stage = "ok", !.toks = NoTokens, !.rest = FALSE]
  <2>0. "ok" \in Stages
        BY DEF Stages, Done
  <2>1. /\ r \in Req /\ r.kind \in Write /\ r.session = flight[i].session /\ r.stage = "ok"
        /\ r.own = flight[i].own
        BY <1>1, <1>5, <1>6, <2>0 DEF Req
  <2> HIDE DEF r
  <2>2. flight' = [flight EXCEPT ![i] = r] /\ file' = file /\ unsaved' = TRUE
        BY <1>1, <1>13 DEF r, FlightTypes, GiveUpSave, Saved
  <2>3. ~overlapped' /\ ~cutShort' => file.rest = TRUE
        BY <1>2, <1>4, <1>13 DEF Progress, Saving
  <2>4. file' \in [rest: BOOLEAN, toks: Table]
        BY <2>2 DEF ServerTypes
  <2> QED
        BY <2>1, <2>2, <2>3, <2>4 DEF Progress, Follows
<1>9. CASE ReadConfig(i) /\ ~GiveUpSave(i)
  <2> DEFINE r == [flight[i] EXCEPT !.stage = "read", !.rest = file.rest]
  <2>1. /\ r \in Req /\ r.kind \in Write /\ r.session = flight[i].session
        /\ r.own = flight[i].own
        /\ r.stage = "read" /\ r.toks = flight[i].toks /\ r.rest = file.rest
        BY <1>1, <1>5, <1>6 DEF Req, Stages, Saving
  <2> HIDE DEF r
  <2>2. flight' = [flight EXCEPT ![i] = r] /\ file' = file
        BY <1>1, <1>9 DEF r, FlightTypes, ReadConfig, serverVars
  <2>3. ~overlapped' /\ ~cutShort' => file.rest = TRUE /\ flight[i].toks = tokens
        BY <1>4, <1>9 DEF Progress, ReadConfig
  <2>4. file' \in [rest: BOOLEAN, toks: Table]
        BY <2>2 DEF ServerTypes
  <2> QED
        BY <1>2, <2>1, <2>2, <2>3, <2>4 DEF Progress, Saving
<1>10. CASE Truncate(i) /\ ~GiveUpSave(i)
  <2> DEFINE r == [flight[i] EXCEPT !.stage = "cut"]
  <2>1. /\ r \in Req /\ r.kind \in Write /\ r.session = flight[i].session
        /\ r.own = flight[i].own
        /\ r.stage = "cut" /\ r.toks = flight[i].toks /\ r.rest = flight[i].rest
        BY <1>1, <1>5 DEF Req, Stages, Saving
  <2> HIDE DEF r
  <2>2. flight' = [flight EXCEPT ![i] = r] /\ file' = Broken
        BY <1>1, <1>10 DEF r, FlightTypes, Truncate, Advance
  <2>3. ~overlapped' /\ ~cutShort' => flight[i].rest = TRUE /\ flight[i].toks = tokens
        BY <1>4, <1>10 DEF Progress, Truncate
  <2>4. file' \in [rest: BOOLEAN, toks: Table]
        BY <1>6, <2>2 DEF Broken
  <2> QED
        BY <1>2, <2>1, <2>2, <2>3, <2>4 DEF Progress, Saving
<1>11. CASE WriteConfig(i)
  <2> DEFINE r == [flight[i] EXCEPT !.stage = "ok", !.toks = NoTokens, !.rest = FALSE]
  <2>0. "ok" \in Stages
        BY DEF Stages, Done
  <2>1. /\ r \in Req /\ r.kind \in Write /\ r.session = flight[i].session /\ r.stage = "ok"
        /\ r.own = flight[i].own
        BY <1>1, <1>5, <1>6, <2>0 DEF Req
  <2> HIDE DEF r
  <2>2. flight' = [flight EXCEPT ![i] = r]
        BY <1>1, <1>11 DEF r, FlightTypes, WriteConfig, Saved
  <2>3. ~overlapped' /\ ~cutShort' =>
             file = Broken /\ flight[i].rest = TRUE /\ flight[i].toks = tokens
        BY <1>4, <1>11 DEF Progress, WriteConfig
  <2>4. \/ file' = Rewritten(flight[i]) /\ unsaved' = FALSE
        \/ file' = Broken /\ file # Broken
        \/ file' \in {Broken} \cup Parts(flight[i]) /\ cutShort' = TRUE
        BY <1>11 DEF WriteConfig
  <2>5. file' \in [rest: BOOLEAN, toks: Table]
    <3>1. Broken \in [rest: BOOLEAN, toks: Table]
          BY <1>6 DEF Broken
    <3>2. Rewritten(flight[i]) \in [rest: BOOLEAN, toks: Table]
          BY <1>1 DEF Rewritten
    <3>3. Parts(flight[i]) \subseteq [rest: BOOLEAN, toks: Table]
      <4>1. \A b \in {FALSE, flight[i].rest}, ts \in {NoTokens, flight[i].toks} :
                [rest |-> b, toks |-> ts] \in [rest: BOOLEAN, toks: Table]
            BY <1>1, <1>6
      <4>2. ASSUME NEW f \in Parts(flight[i])
            PROVE  \E b \in {FALSE, flight[i].rest}, ts \in {NoTokens, flight[i].toks} :
                       f = [rest |-> b, toks |-> ts]
            BY DEF Parts
      <4> QED
            BY <4>1, <4>2, Zenon
    <3> QED
          BY <2>4, <3>1, <3>2, <3>3, Zenon
  <2>6. ~overlapped' /\ ~cutShort' => Follows(file', tokens', unsaved')
        BY <1>2, <2>3, <2>4 DEF Rewritten, Follows
  <2> QED
        BY <2>1, <2>2, <2>5, <2>6 DEF Progress
<1> QED
  <2>1. ReadConfig(i) /\ GiveUpSave(i) => flight[i].stage # "cut" /\ UNCHANGED cutShort
        BY DEF ReadConfig
  <2>2. Truncate(i) /\ GiveUpSave(i) => flight[i].stage # "cut" /\ UNCHANGED cutShort
        BY DEF Truncate
  <2> QED
        BY <1>8, <1>9, <1>10, <1>11, <1>13, <2>1, <2>2

\* A session ends.
LEMMA ExpireStep ==
    ASSUME AdminInv, NEW s \in sessions, Expire(s)
    PROVE  ServerTypes' /\ FlightTypes' /\ FlightHonest' /\ SaveInv'
<1> USE DEF AdminInv, AdminTypes, Expire
<1>1. ServerTypes' /\ FlightTypes'
      BY DEF ServerTypes, FlightTypes
<1>2. FlightHonest'
  <2> SUFFICES ASSUME NEW i \in DOMAIN flight PROVE Honest(flight[i], sessions', logins')
        BY DEF FlightHonest
  <2> QED
        BY DEF FlightHonest, Honest
<1>3. SaveInv'
      BY DEF SaveInv, OneSave, SaveProgress, FileFollowsTheMap, Settled, Config
<1> QED
      BY <1>1, <1>2, <1>3

\* A crash and the start after it: what was being saved is lost, and the map is what
\* the file had.
LEMMA RestartStep ==
    ASSUME AdminInv, Restart
    PROVE  ServerTypes' /\ FlightTypes' /\ FlightHonest' /\ SaveInv'
<1> USE DEF AdminInv, AdminTypes
<1>0. flight' = [i \in DOMAIN flight |->
                     [flight[i] EXCEPT !.stage = IF flight[i].stage \in Saving THEN "lost"
                                                 ELSE flight[i].stage,
                                       !.late  = flight[i].kind = "list"]]
      BY DEF Restart
<1>1. /\ DOMAIN flight' = DOMAIN flight /\ flight \in Seq(Req) /\ Len(flight) <= MaxFlight
      /\ DOMAIN flight = 1 .. Len(flight) /\ Len(flight) \in Nat
  <2>1. DOMAIN flight' = DOMAIN flight
        BY <1>0, Zenon
  <2> QED
        BY <2>1 DEF FlightTypes
<1>2. ASSUME NEW i \in DOMAIN flight
      PROVE  /\ flight'[i] \in Req /\ flight'[i].stage \notin Saving
             /\ flight'[i].kind = flight[i].kind /\ flight'[i].session = flight[i].session
             /\ flight'[i].own = flight[i].own
             /\ \/ flight'[i].stage = "lost" /\ flight[i].stage \in Saving
                \/ flight'[i].stage = flight[i].stage
  <2> DEFINE stage == IF flight[i].stage \in Saving THEN "lost" ELSE flight[i].stage
             late  == flight[i].kind = "list"
  <2>0. flight[i] \in Req
        BY <1>1
  <2>1. flight'[i] = [flight[i] EXCEPT !.stage = stage, !.late = late] /\ flight[i] \in Req
        BY <1>0, <2>0, Zenon
  <2>2. stage \in Stages /\ stage \notin Saving /\ ((stage = "lost" /\ flight[i].stage \in Saving) \/ stage = flight[i].stage)
        BY <2>1 DEF Req, Stages, Saving
  <2>3. late \in BOOLEAN
        BY Zenon
  <2> HIDE DEF stage, late
  <2> QED
        BY <2>1, <2>2, <2>3 DEF Req
<1>3. FlightTypes'
  <2>1. \A i \in 1 .. Len(flight) : flight'[i] \in Req
        BY <1>1, <1>2
  <2>2. flight' \in [1 .. Len(flight) -> Req]
    <3> DEFINE f(i) == [flight[i] EXCEPT !.stage = IF flight[i].stage \in Saving THEN "lost"
                                                   ELSE flight[i].stage,
                                         !.late  = flight[i].kind = "list"]
    <3>1. flight' = [i \in 1 .. Len(flight) |-> f(i)]
          BY <1>0, <1>1, Zenon
    <3> HIDE DEF f
    <3>2. \A i \in 1 .. Len(flight) : f(i) \in Req
          BY <2>1, <3>1
    <3> QED
          BY <3>1, <3>2
  <2>3. flight' \in Seq(Req) /\ Len(flight') = Len(flight)
        BY <1>1, <2>2
  <2> QED
        BY <1>1, <2>3 DEF FlightTypes
<1>4. ServerTypes'
  <2>1. file.toks \in Table /\ file.rest \in BOOLEAN
        BY DEF ServerTypes
  <2>2. up' \in BOOLEAN
        BY Zenon DEF Restart
  <2>3. cutShort' \in BOOLEAN
        BY Zenon DEF Restart
  <2>4. restarts' \in 0 .. MaxRestarts
    <3>1. restarts' = restarts + 1 /\ restarts < MaxRestarts
          BY DEF Restart
    <3>2. restarts \in 0 .. MaxRestarts /\ MaxRestarts \in Nat
          BY AdminAssumption DEF ServerTypes
    <3> QED
          BY <3>1, <3>2
  <2> QED
        BY <2>1, <2>2, <2>3, <2>4 DEF Restart, ServerTypes
<1>5. FlightHonest'
  <2> SUFFICES ASSUME NEW i \in DOMAIN flight PROVE Honest(flight'[i], sessions', logins')
        BY <1>1 DEF FlightHonest
  <2>1. Honest(flight[i], sessions, logins)
        BY DEF FlightHonest
  <2>2. sessions' = {} /\ logins' = logins
        BY DEF Restart
  <2>3. /\ flight'[i].kind = flight[i].kind /\ flight'[i].session = flight[i].session
        /\ flight'[i].stage \notin Saving /\ flight'[i].own = flight[i].own
        /\ \/ flight'[i].stage = "lost" /\ flight[i].stage \in Saving
           \/ flight'[i].stage = flight[i].stage
        BY <1>2
  <2> QED
        BY <2>1, <2>2, <2>3 DEF Honest, Write
<1>6. SaveInv'
  <2>1. OneSave' /\ SaveProgress'
        BY <1>1, <1>2 DEF OneSave, SaveProgress, Progress, Saving
  <2>2. FileFollowsTheMap'
    <3> SUFFICES ASSUME ~overlapped', ~cutShort' PROVE Follows(file', tokens', unsaved')
          BY DEF FileFollowsTheMap, Follows
    <3>1. /\ ~overlapped /\ ~cutShort /\ file' = file /\ tokens' = file.toks
          /\ \A i \in DOMAIN flight : flight[i].stage # "cut"
          BY DEF Restart
    <3>2. file.rest = TRUE
      <4>1. CASE Settled
            BY <3>1, <4>1 DEF SaveInv, FileFollowsTheMap, Config
      <4>2. CASE ~Settled
        <5>1. PICK i \in DOMAIN flight : flight[i].stage \in Saving
              BY <4>2 DEF Settled
        <5> QED
              BY <3>1, <5>1 DEF SaveInv, SaveProgress, Progress, Saving
      <4> QED
            BY <4>1, <4>2
    <3>3. file \in [rest: BOOLEAN, toks: Table]
          BY DEF ServerTypes
    <3> QED
          BY <3>1, <3>2, <3>3 DEF Follows
  <2> QED
        BY <2>1, <2>2 DEF SaveInv
<1> QED
      BY <1>3, <1>4, <1>5, <1>6

------------------------------------------------------------------------------
(* The page's steps.                                                        *)

\* A request to log in or to fetch is well-typed and honest.
LEMMA GetIsFresh ==
    ASSUME ServerTypes, NEW kind \in {"login", "agents", "list"}, NEW n \in 0 .. logins,
           kind # "login" => n # 0
    PROVE  /\ Get(kind, n) \in Req /\ Get(kind, n).stage = "sent"
           /\ Honest(Get(kind, n), sessions, logins)
<1>1. n \in Nat /\ NoTokens \in Table /\ "sent" \in Stages /\ logins \in Nat /\ n <= logins
      BY AdminAssumption DEF ServerTypes, NoTokens, Table, Stages
<1>2. /\ Get(kind, n) \in Req /\ Get(kind, n).stage = "sent" /\ Get(kind, n).session = n
      /\ Get(kind, n).kind = kind /\ Get(kind, n).own = TRUE
      BY <1>1 DEF Get, Request, Req
<1> QED
      BY <1>1, <1>2 DEF Honest, Saving, Write

\* A request to change a token is well-typed and honest.
LEMMA WriteIsFresh ==
    ASSUME ServerTypes, NEW kind \in Write, NEW n \in 1 .. logins,
           NEW d \in Devices, NEW s \in Secrets \cup {None}
    PROVE  /\ Request(kind, n, d, s) \in Req /\ Request(kind, n, d, s).stage = "sent"
           /\ Honest(Request(kind, n, d, s), sessions, logins)
<1>1. n \in Nat /\ NoTokens \in Table /\ "sent" \in Stages /\ logins \in Nat /\ n <= logins /\ n # 0
      BY AdminAssumption DEF ServerTypes, NoTokens, Table, Stages
<1>2. /\ Request(kind, n, d, s) \in Req /\ Request(kind, n, d, s).stage = "sent"
      /\ Request(kind, n, d, s).session = n /\ Request(kind, n, d, s).own = TRUE
      BY <1>1 DEF Request, Req
<1> QED
      BY <1>1, <1>2 DEF Honest, Saving

\* A step of the page that takes an answer, if i is not 0, and sends requests.
LEMMA PageStep ==
    ASSUME AdminInv, UNCHANGED serverVars, NEW i \in {0} \cup DOMAIN flight,
           i # 0 => flight[i].stage \notin Saving, NEW reqs, Fresh(reqs), Send(i, reqs)
    PROVE  ServerTypes' /\ FlightTypes' /\ FlightHonest' /\ SaveInv'
<1> USE DEF AdminInv, AdminTypes
<1>1. flight' \in Seq(Req) /\ \E src : Carried(flight', src)
  <2>1. CASE i = 0
    <3>1. flight' = flight \o reqs
          BY <2>1 DEF Send
    <3> QED
          BY <3>1, SentCarries
  <2>2. CASE i # 0
    <3>1. flight' = RemoveAt(flight, i) \o reqs /\ i \in DOMAIN flight
          BY <2>2 DEF Send
    <3>2. flight \in Seq(Req) /\ \A j \in DOMAIN flight : Same(flight[j], flight[j])
          BY DEF FlightTypes, Same
    <3> QED
          BY <2>2, <3>1, <3>2, AnsweredCarries
  <2> QED
        BY <2>1, <2>2
<1>2. FlightTypes'
      BY <1>1 DEF FlightTypes, Send
<1>3. ServerTypes'
      BY DEF ServerTypes, serverVars
<1> QED
      BY <1>1, <1>2, <1>3, CarriedInv

\* A step of the page that takes an answer and marks lists late.
LEMMA LateStep ==
    ASSUME AdminInv, UNCHANGED serverVars, NEW i \in DOMAIN flight,
           flight[i].stage \notin Saving, NEW fl \in Seq(Req), Len(fl) = Len(flight),
           \A j \in DOMAIN flight : Same(fl[j], flight[j]), flight' = RemoveAt(fl, i)
    PROVE  ServerTypes' /\ FlightTypes' /\ FlightHonest' /\ SaveInv'
<1> USE DEF AdminInv, AdminTypes
<1>1. flight' \in Seq(Req) /\ Len(flight') = Len(fl) - 1 /\ DOMAIN fl = DOMAIN flight
  <2>1. DOMAIN fl = DOMAIN flight
        BY DEF FlightTypes
  <2> QED
        BY <2>1, Removed
<1>2. flight' = RemoveAt(fl, i) \o <<>> /\ Fresh(<<>>)
      BY <1>1 DEF Fresh
<1>3. \E src : Carried(flight', src)
      BY <1>2, AnsweredCarries
<1>4. Len(fl) - 1 <= MaxFlight /\ FlightTypes'
      BY <1>1, AdminAssumption DEF FlightTypes
<1>5. ServerTypes'
      BY DEF ServerTypes, serverVars
<1> QED
      BY <1>3, <1>4, <1>5, CarriedInv
\* None, one or two fresh requests may follow an answer.
LEMMA FreshOnes ==
    ASSUME NEW q \in Req, q.stage = "sent", Honest(q, sessions, logins),
           NEW r \in Req, r.stage = "sent", Honest(r, sessions, logins)
    PROVE  Fresh(<<>>) /\ Fresh(<<q>>) /\ Fresh(<<q, r>>)
<1>1. Fresh(<<>>)
      BY DEF Fresh
<1>2. Fresh(<<q>>)
  <2>1. <<q>> \in Seq(Req) /\ DOMAIN <<q>> = {1} /\ <<q>>[1] = q
        OBVIOUS
  <2> QED
        BY <2>1 DEF Fresh
<1>3. Fresh(<<q, r>>)
  <2>1. /\ <<q, r>> \in Seq(Req) /\ DOMAIN <<q, r>> = {1, 2}
        /\ <<q, r>>[1] = q /\ <<q, r>>[2] = r
        OBVIOUS
  <2> QED
        BY <2>1 DEF Fresh
<1> QED
      BY <1>1, <1>2, <1>3

\* What the page fetches after an answer is fresh.
LEMMA GetsAreFresh ==
    ASSUME ServerTypes, NEW n \in 0 .. logins
    PROVE  /\ Fresh(<<>>) /\ Fresh(<<Get("login", 0)>>)
           /\ n # 0 => /\ Fresh(<<Get("agents", n)>>) /\ Fresh(<<Get("list", n)>>)
                       /\ Fresh(<<Get("agents", n), Get("list", n)>>)
<1>1. 0 \in 0 .. logins
      BY AdminAssumption DEF ServerTypes
<1>2. Fresh(<<>>) /\ Fresh(<<Get("login", 0)>>)
      BY <1>1, GetIsFresh, FreshOnes
<1>3. ASSUME n # 0
      PROVE  /\ Fresh(<<Get("agents", n)>>) /\ Fresh(<<Get("list", n)>>)
             /\ Fresh(<<Get("agents", n), Get("list", n)>>)
  <2>1. /\ Get("agents", n) \in Req /\ Get("agents", n).stage = "sent"
        /\ Honest(Get("agents", n), sessions, logins)
        BY <1>3, GetIsFresh
  <2>2. /\ Get("list", n) \in Req /\ Get("list", n).stage = "sent"
        /\ Honest(Get("list", n), sessions, logins)
        BY <1>3, GetIsFresh
  <2> QED
        BY <2>1, <2>2, FreshOnes
<1> QED
      BY <1>2, <1>3

\* What the page does of its own accord.
LEMMA ClickStep ==
    ASSUME AdminInv, Click \/ PollAgents
    PROVE  AdminInv'
<1> USE DEF AdminInv, AdminTypes
<1>1. /\ 0 \in {0} \cup DOMAIN flight /\ token \in 0 .. logins /\ 0 \in 0 .. logins
      /\ writes \in 0 .. MaxWrites /\ MaxWrites \in Nat /\ UNCHANGED serverVars
      BY AdminAssumption DEF PageTypes, ServerTypes, Click, PollAgents, HandleLogin, Logout,
            FetchTokens, AddToken, UpdateToken, DeleteToken
<1>2. CASE Logout
  <2>1. ServerTypes' /\ PageTypes' /\ FlightTypes'
        BY <1>1, <1>2 DEF Logout, serverVars, ServerTypes, PageTypes, FlightTypes
  <2>2. FlightHonest' /\ SaveInv'
        BY <1>2 DEF Logout, serverVars, FlightHonest, SaveInv, OneSave, SaveProgress,
              FileFollowsTheMap, Settled, Config
  <2> QED
        BY <2>1, <2>2
<1>3. CASE HandleLogin
  <2>1. Send(0, <<Get("login", 0)>>) /\ Fresh(<<Get("login", 0)>>)
        BY <1>1, <1>3, GetsAreFresh DEF HandleLogin
  <2>2. PageTypes'
        BY <1>3 DEF HandleLogin, serverVars, PageTypes
  <2> QED
        BY <1>1, <2>1, <2>2, PageStep
<1>4. CASE PollAgents
  <2>1. Send(0, <<Get("agents", token)>>) /\ Fresh(<<Get("agents", token)>>)
        BY <1>1, <1>4, GetsAreFresh DEF PollAgents
  <2>2. PageTypes'
        BY <1>4 DEF PollAgents, serverVars, pageVars, PageTypes
  <2> QED
        BY <1>1, <2>1, <2>2, PageStep
<1>5. CASE FetchTokens
  <2>1. Send(0, <<Get("list", token)>>) /\ Fresh(<<Get("list", token)>>)
        BY <1>1, <1>5, GetsAreFresh DEF FetchTokens
  <2>2. PageTypes'
        BY <1>5 DEF FetchTokens, serverVars, pageVars, PageTypes
  <2> QED
        BY <1>1, <2>1, <2>2, PageStep
<1>6. ASSUME NEW kind \in Write, NEW d \in Devices, NEW s \in Secrets \cup {None},
             SendWrite(Request(kind, token, d, s)), UNCHANGED <<serverVars, pageVars>>
      PROVE  AdminInv'
  <2> DEFINE r == Request(kind, token, d, s)
  <2>1. token \in 1 .. logins /\ writes' \in 0 .. MaxWrites
        BY <1>1, <1>6, AdminAssumption DEF SendWrite, ServerTypes
  <2>2. r \in Req /\ r.stage = "sent" /\ Honest(r, sessions, logins)
        BY <2>1, WriteIsFresh
  <2> HIDE DEF r
  <2>3. Fresh(<<r>>)
        BY <2>2, FreshOnes
  <2>4. Send(0, <<r>>)
        BY <1>6 DEF SendWrite, r
  <2>5. PageTypes'
        BY <1>6, <2>1 DEF serverVars, pageVars, PageTypes
  <2> QED
        BY <1>1, <2>3, <2>4, <2>5, PageStep
<1>7. ASSUME NEW d \in Devices, NEW s \in Secrets \cup {None}, AddToken(d, s) \/ UpdateToken(d, s)
      PROVE  AdminInv'
      BY <1>6, <1>7 DEF AddToken, UpdateToken, Write
<1>8. ASSUME NEW d \in Devices, DeleteToken(d)
      PROVE  AdminInv'
      BY <1>6, <1>8 DEF DeleteToken, Write
<1> QED
      BY <1>2, <1>3, <1>4, <1>5, <1>7, <1>8 DEF Click

\* Marked late, a flight is the same for the server.
LEMMA MarkedIsSame ==
    ASSUME FlightTypes, NEW mark \in [DOMAIN flight -> BOOLEAN],
           NEW fl, fl = [j \in DOMAIN flight |-> [flight[j] EXCEPT !.late = mark[j]]]
    PROVE  /\ fl \in Seq(Req) /\ Len(fl) = Len(flight)
           /\ \A j \in DOMAIN flight : Same(fl[j], flight[j])
<1>1. flight \in Seq(Req) /\ DOMAIN flight = 1 .. Len(flight) /\ Len(flight) \in Nat
      BY DEF FlightTypes
<1>2. ASSUME NEW j \in DOMAIN flight
      PROVE  fl[j] \in Req /\ Same(fl[j], flight[j])
  <2>1. flight[j] \in Req /\ mark[j] \in BOOLEAN
        BY <1>1
  <2>2. fl[j] = [flight[j] EXCEPT !.late = mark[j]]
        OBVIOUS
  <2> HIDE DEF Same
  <2> QED
        BY <2>1, <2>2 DEF Req, Same
<1>3. fl \in [1 .. Len(flight) -> Req]
  <2> DEFINE f(j) == [flight[j] EXCEPT !.late = mark[j]]
  <2>1. fl = [j \in 1 .. Len(flight) |-> f(j)]
        BY <1>1, Zenon
  <2> HIDE DEF f
  <2>2. \A j \in 1 .. Len(flight) : f(j) \in Req
        BY <1>1, <1>2, <2>1
  <2> QED
        BY <2>1, <2>2
<1> QED
      BY <1>1, <1>2, <1>3

\* The answers, to this page and to others, and one that is lost.
LEMMA AnswerStep ==
    ASSUME AdminInv, NEW i \in DOMAIN flight, Answer(i) \/ Lose(i) \/ OthersAnswered(i)
    PROVE  AdminInv'
<1> USE DEF AdminInv, AdminTypes
<1>0. i \in {0} \cup DOMAIN flight /\ i # 0
      BY DEF FlightTypes
<1>1. /\ flight[i] \in Req /\ Honest(flight[i], sessions, logins)
      /\ flight[i].session \in 0 .. logins /\ flight[i].toks \in Table /\ flight \in Seq(Req)
      BY Asked DEF FlightTypes
<1>2. flight[i].stage \notin Saving
      BY DEF Answer, Lose, LoggedIn, AgentsFetched, TokensFetched, Written, OthersAnswered, Done, Saving
<1>3. UNCHANGED <<serverVars, writes>> /\ UNCHANGED logins
      BY DEF Answer, Lose, LoggedIn, AgentsFetched, TokensFetched, Written, OthersAnswered, serverVars
<1>4. Fresh(<<>>)
      BY <1>1, GetsAreFresh
<1>5. CASE LoggedIn(i)
  <2>1. CASE flight[i].stage = "ok"
    <3> DEFINE reqs == <<Get("agents", flight[i].session), Get("list", flight[i].session)>>
    <3>1. flight[i].session # 0
          BY <1>1, <1>5, <2>1 DEF Honest, LoggedIn
    <3>2. Fresh(reqs)
          BY <1>1, <3>1, GetsAreFresh
    <3>3. Send(i, reqs)
          BY <1>5, <2>1 DEF LoggedIn
    <3>4. PageTypes'
          BY <1>1, <1>3, <1>5, <2>1 DEF LoggedIn, PageTypes
    <3> HIDE DEF reqs
    <3> QED
          BY <1>0, <1>2, <1>3, <3>2, <3>3, <3>4, PageStep
  <2>2. CASE flight[i].stage # "ok"
    <3>1. Send(i, <<>>)
          BY <1>5, <2>2 DEF LoggedIn
    <3>2. PageTypes'
          BY <1>3, <1>5, <2>2 DEF LoggedIn, PageTypes
    <3> QED
          BY <1>0, <1>2, <1>3, <1>4, <3>1, <3>2, PageStep
  <2> QED
        BY <2>1, <2>2
<1>6. CASE AgentsFetched(i)
  <2>1. Send(i, <<>>)
        BY <1>6 DEF AgentsFetched
  <2>2. PageTypes'
        BY <1>3, <1>6, AdminAssumption DEF AgentsFetched, PageTypes, ServerTypes
  <2> QED
        BY <1>0, <1>2, <1>3, <1>4, <2>1, <2>2, PageStep
<1>7. CASE Written(i)
  <2> DEFINE reqs == IF flight[i].stage = "ok" THEN <<Get("list", flight[i].session)>> ELSE <<>>
  <2>1. flight[i].session # 0
        BY <1>1, <1>7 DEF Honest, Written, Write
  <2>2. Fresh(reqs)
        BY <1>1, <1>4, <2>1, GetsAreFresh
  <2>3. Send(i, reqs)
        BY <1>7 DEF Written
  <2>4. PageTypes'
        BY <1>3, <1>7 DEF Written, PageTypes
  <2> HIDE DEF reqs
  <2> QED
        BY <1>0, <1>2, <1>3, <2>2, <2>3, <2>4, PageStep
<1>8. CASE TokensFetched(i)
  <2>1. CASE flight[i].stage = "ok"
    <3> DEFINE fl == [j \in DOMAIN flight |->
                         [flight[j] EXCEPT !.late = @ \/ (j < i /\ flight[j].kind = "list")]]
    <3>1. fl \in Seq(Req) /\ Len(fl) = Len(flight) /\ \A j \in DOMAIN flight : Same(fl[j], flight[j])
      <4> DEFINE mark == [j \in DOMAIN flight |->
                             flight[j].late \/ (j < i /\ flight[j].kind = "list")]
      <4>1. mark \in [DOMAIN flight -> BOOLEAN]
            BY Zenon
      <4>2. fl = [j \in DOMAIN flight |-> [flight[j] EXCEPT !.late = mark[j]]]
            BY Zenon
      <4> HIDE DEF mark, fl
      <4> QED
            BY <4>1, <4>2, MarkedIsSame
    <3>2. flight' = RemoveAt(fl, i) /\ table' = flight[i].toks /\ UNCHANGED <<token, loginLoading>>
          BY <1>8, <2>1 DEF TokensFetched
    <3>3. behind' \in BOOLEAN
      <4>1. behind' = (flight[i].late \/ (behind /\ \E j \in DOMAIN flight \ {i} :
                          flight[j].own /\ flight[j].kind \in Write \cup {"list"}))
            BY <1>8, <2>1, Zenon DEF TokensFetched
      <4> QED
            BY <4>1, Zenon
    <3>4. PageTypes'
          BY <1>1, <1>3, <3>2, <3>3 DEF PageTypes
    <3> HIDE DEF fl
    <3> QED
          BY <1>2, <1>3, <3>1, <3>2, <3>4, LateStep
  <2>2. CASE flight[i].stage # "ok"
    <3>1. flight' = RemoveAt(flight, i)
          BY <1>8, <2>2 DEF TokensFetched
    <3>2. PageTypes'
          BY <1>3, <1>8, <2>2, AdminAssumption DEF TokensFetched, PageTypes, ServerTypes
    <3>3. \A j \in DOMAIN flight : Same(flight[j], flight[j])
          BY DEF Same
    <3> QED
          BY <1>1, <1>2, <1>3, <3>1, <3>2, <3>3, LateStep
  <2> QED
        BY <2>1, <2>2
<1>9. CASE Lose(i)
  <2>1. loginLoading' \in BOOLEAN
    <3>1. loginLoading' = (loginLoading /\ flight[i].kind # "login")
          BY <1>9 DEF Lose
    <3> QED
          BY <3>1, Zenon
  <2>2. behind' \in BOOLEAN /\ UNCHANGED <<token, table>>
        BY <1>9 DEF Lose, PageTypes
  <2>3. PageTypes'
        BY <1>3, <2>1, <2>2 DEF PageTypes
  <2>4. CASE flight' = RemoveAt(flight, i)
    <3>1. \A j \in DOMAIN flight : Same(flight[j], flight[j])
          BY DEF Same
    <3> QED
          BY <1>1, <1>2, <1>3, <2>3, <2>4, <3>1, LateStep
  <2>5. CASE flight' = RemoveAt(Late(flight), i)
    <3> DEFINE mark == [j \in DOMAIN flight |-> flight[j].kind = "list"]
    <3>1. mark \in [DOMAIN flight -> BOOLEAN]
          BY Zenon
    <3>2. Late(flight) = [j \in DOMAIN flight |-> [flight[j] EXCEPT !.late = mark[j]]]
          BY Zenon DEF Late
    <3> HIDE DEF mark
    <3>3. /\ Late(flight) \in Seq(Req) /\ Len(Late(flight)) = Len(flight)
          /\ \A j \in DOMAIN flight : Same(Late(flight)[j], flight[j])
          BY <3>1, <3>2, MarkedIsSame
    <3> QED
          BY <1>2, <1>3, <2>3, <2>5, <3>3, LateStep
  <2> QED
        BY <1>9, <2>4, <2>5 DEF Lose
<1>10. CASE OthersAnswered(i)
  <2>1. Send(i, <<>>)
        BY <1>10 DEF OthersAnswered
  <2>2. PageTypes'
        BY <1>3, <1>10 DEF OthersAnswered, PageTypes, pageVars
  <2> QED
        BY <1>0, <1>2, <1>3, <1>4, <2>1, <2>2, PageStep
<1> QED
      BY <1>5, <1>6, <1>7, <1>8, <1>9, <1>10 DEF Answer

\* What is under way after another page's change: lists marked late, and its request.
LEMMA OthersFlight ==
    ASSUME AdminInv, NEW d \in Devices, NEW s \in Secrets \cup {None}, OthersWrite(d, s)
    PROVE  LET n == Len(flight) IN
           /\ n \in Nat /\ DOMAIN flight = 1 .. n /\ flight' \in Seq(Req)
           /\ Len(flight') = n + 1 /\ DOMAIN flight' = 1 .. n + 1
           /\ \A j \in 1 .. n : /\ Same(flight'[j], flight[j])
                               /\ flight'[j].late = (flight[j].late \/ Overtaken(flight[j]))
           /\ flight'[n + 1].kind \in Write /\ flight'[n + 1].stage = "applied"
           /\ flight'[n + 1].session = 0 /\ flight'[n + 1].own = FALSE
<1> DEFINE n    == Len(flight)
           kind == IF s = None THEN "delete" ELSE "create"
           r    == [Request(kind, 0, d, s) EXCEPT !.own = FALSE, !.stage = "applied"]
           mark == [j \in DOMAIN flight |-> flight[j].late \/ Overtaken(flight[j])]
           fl   == [j \in DOMAIN flight |-> [flight[j] EXCEPT !.late = mark[j]]]
<1> USE DEF AdminInv, AdminTypes
<1>1. n \in Nat /\ DOMAIN flight = 1 .. n
      BY DEF FlightTypes
<1>2. kind \in Write
      BY DEF Write
<1> HIDE DEF kind
<1>3. /\ r \in Req /\ r.kind = kind /\ r.stage = "applied" /\ r.session = 0 /\ r.own = FALSE
  <2>1. NoTokens \in Table /\ "applied" \in Stages
        BY DEF NoTokens, Table, Stages, Saving
  <2> QED
        BY <1>2, <2>1 DEF Req, Request
<1> HIDE DEF r
<1>4. mark \in [DOMAIN flight -> BOOLEAN]
      BY Zenon
<1> HIDE DEF mark
<1>5. fl \in Seq(Req) /\ Len(fl) = n /\ \A j \in DOMAIN flight : Same(fl[j], flight[j])
      BY <1>4, MarkedIsSame
<1>6. flight' = Append(fl, r)
      BY Zenon DEF OthersWrite, r, kind, mark
<1>7. \A j \in DOMAIN flight : fl[j].late = mark[j]
  <2> TAKE j \in DOMAIN flight
  <2>1. flight[j] \in Req
        BY DEF FlightTypes
  <2> QED
        BY <2>1 DEF Req
<1>8. \A j \in DOMAIN flight : mark[j] = (flight[j].late \/ Overtaken(flight[j]))
      BY Zenon DEF mark
<1> HIDE DEF fl
<1>9. /\ flight' \in Seq(Req) /\ Len(flight') = n + 1 /\ DOMAIN flight' = 1 .. n + 1
      /\ \A j \in 1 .. n : flight'[j] = fl[j]
      /\ flight'[n + 1] = r
      BY <1>1, <1>3, <1>5, <1>6
<1> QED
      BY <1>1, <1>2, <1>3, <1>5, <1>7, <1>8, <1>9

\* Another page's change.
LEMMA OthersStep ==
    ASSUME AdminInv, NEW d \in Devices, NEW s \in Secrets \cup {None}, OthersWrite(d, s)
    PROVE  AdminInv'
<1> USE DEF AdminInv, AdminTypes
<1> DEFINE n == Len(flight)
<1>1. /\ n \in Nat /\ DOMAIN flight = 1 .. n /\ flight' \in Seq(Req)
      /\ Len(flight') = n + 1 /\ DOMAIN flight' = 1 .. n + 1
      /\ \A j \in 1 .. n : Same(flight'[j], flight[j])
      /\ flight'[n + 1].kind \in Write /\ flight'[n + 1].stage = "applied"
      /\ flight'[n + 1].session = 0 /\ flight'[n + 1].own = FALSE
      BY OthersFlight
<1>2. n < MaxFlight /\ MaxFlight \in Nat /\ logins \in Nat /\ MaxWrites \in Nat
      BY AdminAssumption DEF OthersWrite, ServerTypes
<1>3. /\ UNCHANGED <<sessions, logins, hasPassword, up, restarts, file, cutShort, unsaved, token,
                     loginLoading, table>>
      /\ tokens' = [tokens EXCEPT ![d] = s] /\ overlapped' = (overlapped \/ InSave(0))
      /\ behind' = TRUE /\ writes' = writes + 1 /\ writes < MaxWrites
      BY DEF OthersWrite
<1> HIDE DEF n
<1>4. FlightTypes'
      BY <1>1, <1>2 DEF FlightTypes
<1>5. ServerTypes'
  <2>1. overlapped' \in BOOLEAN
        BY <1>3, Zenon
  <2>2. tokens' \in Table
        BY <1>3 DEF ServerTypes, Table
  <2> QED
        BY <1>3, <2>1, <2>2 DEF ServerTypes
<1>6. PageTypes'
      BY <1>2, <1>3 DEF PageTypes
<1>7. FlightHonest'
  <2> SUFFICES ASSUME NEW j \in DOMAIN flight' PROVE Honest(flight'[j], sessions, logins)
        BY <1>3 DEF FlightHonest, Honest
  <2>1. CASE j \in 1 .. n
    <3>1. Honest(flight[j], sessions, logins) /\ Same(flight'[j], flight[j])
          BY <1>1, <2>1 DEF FlightHonest
    <3> QED
          BY <3>1 DEF Honest, Same
  <2>2. CASE j = n + 1
        BY <1>1, <1>2, <2>2 DEF Honest, Saving, Write
  <2> QED
        BY <1>1, <2>1, <2>2
<1>8. ~overlapped' => ~overlapped /\ \A j \in 1 .. n : /\ flight[j].stage \notin Saving
                                                       /\ flight'[j].stage \notin Saving
  <2>1. ASSUME NEW j \in 1 .. n, flight[j].stage \in Saving PROVE InSave(0)
    <3>1. j \in DOMAIN flight \ {0}
          BY <1>1
    <3> QED
          BY <2>1, <3>1 DEF InSave
  <2>2. \A j \in 1 .. n : flight'[j].stage = flight[j].stage
        BY <1>1 DEF Same
  <2> QED
        BY <1>3, <2>1, <2>2
<1>9. OneSave'
      BY <1>1, <1>8 DEF OneSave
<1>10. SaveProgress'
  <2> SUFFICES ASSUME ~overlapped', ~cutShort', NEW j \in DOMAIN flight'
               PROVE  Progress(flight'[j], tokens', file')
        BY DEF SaveProgress
  <2>1. file.rest = TRUE
        BY <1>1, <1>3, <1>8 DEF SaveInv, FileFollowsTheMap, Settled
  <2>2. CASE j \in 1 .. n
        BY <1>8, <2>2 DEF Progress, Saving
  <2>3. CASE j = n + 1
        BY <1>1, <1>3, <2>1, <2>3 DEF Progress
  <2> QED
        BY <1>1, <2>2, <2>3
<1>11. FileFollowsTheMap'
      BY <1>1 DEF FileFollowsTheMap, Settled, Saving
<1> QED
      BY <1>4, <1>5, <1>6, <1>7, <1>9, <1>10, <1>11 DEF SaveInv

------------------------------------------------------------------------------
(* The invariant.                                                           *)

\* What the page keeps stays in bounds while the server goes on.
LEMMA PageStays ==
    ASSUME PageTypes, ServerTypes, ServerTypes', UNCHANGED <<pageVars, writes>>, logins <= logins'
    PROVE  PageTypes'
<1>1. logins \in Nat /\ logins' \in Nat
      BY AdminAssumption DEF ServerTypes
<1>2. token' \in 0 .. logins'
      BY <1>1 DEF PageTypes, pageVars
<1> QED
      BY <1>2 DEF PageTypes, pageVars

\* Every step of a handler keeps the invariant.
LEMMA ServeStep ==
    ASSUME AdminInv, NEW i \in DOMAIN flight, Serve(i)
    PROVE  AdminInv'
<1>1. ServerTypes' /\ FlightTypes' /\ FlightHonest' /\ SaveInv'
      BY LoginStep, RefuseStep, GetStep, ApplyStep, SaveStep DEF Serve
<1>2. logins \in Nat
      BY AdminAssumption DEF AdminInv, AdminTypes, ServerTypes
<1>3. UNCHANGED <<pageVars, writes>> /\ logins <= logins'
      BY <1>2 DEF Serve, ServeLogin, Refuse, ServeGet, Apply, CopyTokens, ReadConfig, Truncate,
            WriteConfig, serverVars
<1>4. PageTypes'
      BY <1>1, <1>3, PageStays DEF AdminInv, AdminTypes
<1> QED
      BY <1>1, <1>4 DEF AdminInv, AdminTypes

\* The invariant is inductive.
LEMMA AdminInvStep == AdminInv /\ [Next]_vars => AdminInv'
<1> SUFFICES ASSUME AdminInv, [Next]_vars PROVE AdminInv'
      OBVIOUS
<1>0. logins \in Nat
      BY AdminAssumption DEF AdminInv, AdminTypes, ServerTypes
<1>1. CASE Restart
  <2>1. ServerTypes' /\ FlightTypes' /\ FlightHonest' /\ SaveInv'
        BY <1>1, RestartStep
  <2>2. UNCHANGED <<token, loginLoading, table, writes, logins>> /\ behind' \in BOOLEAN
        BY <1>1, Zenon DEF Restart
  <2>3. PageTypes'
        BY <2>2 DEF AdminInv, AdminTypes, PageTypes
  <2> QED
        BY <2>1, <2>3 DEF AdminInv, AdminTypes
<1>2. ASSUME NEW s \in sessions, Expire(s) PROVE AdminInv'
  <2>1. ServerTypes' /\ FlightTypes' /\ FlightHonest' /\ SaveInv'
        BY <1>2, ExpireStep
  <2>2. UNCHANGED <<pageVars, writes>> /\ logins <= logins'
        BY <1>0, <1>2 DEF Expire
  <2>3. PageTypes'
        BY <2>1, <2>2, PageStays DEF AdminInv, AdminTypes
  <2> QED
        BY <2>1, <2>3 DEF AdminInv, AdminTypes
<1>3. CASE UNCHANGED vars
  <2>1. ServerTypes' /\ PageTypes' /\ FlightTypes'
        BY <1>3 DEF AdminInv, AdminTypes, vars, ServerTypes, PageTypes, FlightTypes
  <2>2. FlightHonest' /\ SaveInv'
        BY <1>3 DEF AdminInv, vars, FlightHonest, SaveInv, OneSave, SaveProgress,
              FileFollowsTheMap, Settled, Config
  <2> QED
        BY <2>1, <2>2 DEF AdminInv, AdminTypes
<1> QED
      BY <1>1, <1>2, <1>3, ServeStep, ClickStep, AnswerStep, OthersStep DEF Next

\* In every behaviour a request goes by a login that was made, a refused one by a
\* login the server has forgotten, and a save that runs alone has read what it must.
THEOREM AdminInvHolds == Spec => []AdminInv
<1> QED
    BY InitAdminInv, AdminInvStep, PTL DEF Spec

\* The server's map and file, the page and the requests keep their types.
THEOREM AdminTypesCorrect == Spec => []TypeOK
<1>1. AdminInv => TypeOK
      BY TypesAreTypeOK DEF AdminInv
<1> QED
    BY <1>1, AdminInvHolds, PTL

\* Unless two saves overlapped, or a write of the file failed or was cut by a crash,
\* the file is whole whenever no save is under way, and has every change but those
\* whose save could not read or open it (which are acknowledged all the same), for
\* any number of pages, writes, failures and restarts.
THEOREM FileKeepsTheMap == Spec => []FileFollowsTheMap
<1>1. AdminInv => FileFollowsTheMap
      BY DEF AdminInv, SaveInv
<1> QED
    BY <1>1, AdminInvHolds, PTL

\* A sequence is the front of what it is put before.
LEMMA FrontOfConcat ==
    ASSUME NEW T, NEW s \in Seq(T), NEW t \in Seq(T)
    PROVE  SubSeq(s \o t, 1, Len(s)) = s
<1>1. s \o t \in Seq(T) /\ Len(s \o t) = Len(s) + Len(t) /\ Len(s) \in Nat /\ Len(t) \in Nat
      OBVIOUS
<1>2. /\ SubSeq(s \o t, 1, Len(s)) \in Seq(T) /\ Len(SubSeq(s \o t, 1, Len(s))) = Len(s)
      /\ \A j \in 1 .. Len(s) : SubSeq(s \o t, 1, Len(s))[j] = s[j]
      BY <1>1
<1> QED
      BY <1>2

\* The page drops a login the server knows when the user logs out, and else only for
\* the answer it takes in that step, which is to a request of another login.
THEOREM LoginsAreKept == Spec => KnownLoginStays
<1> DEFINE Dropping == \E i \in DOMAIN flight :
                           /\ Taken(i) /\ flight[i].session \notin {0, token}
                           /\ flight[i].stage = "refused" \/ flight[i].kind = "login"
<1>1. AdminInv /\ [Next]_vars =>
          [flight' # flight /\ token' # token /\ token \in sessions => Dropping]_vars
  <2> SUFFICES ASSUME AdminInv, Next, flight' # flight, token' # token, token \in sessions
               PROVE  Dropping
        BY DEF vars
  <2>1. PICK i \in DOMAIN flight : LoggedIn(i) \/ AgentsFetched(i) \/ TokensFetched(i)
    <3>3. \A d \in Devices, s \in Secrets \cup {None} : ~ OthersWrite(d, s)
          BY DEF OthersWrite
    <3>1. ~ Click /\ ~ PollAgents /\ ~ Restart /\ \A s \in sessions : ~ Expire(s)
          BY DEF Click, HandleLogin, Logout, FetchTokens, AddToken, UpdateToken, DeleteToken,
                PollAgents, Restart, Expire, pageVars
    <3>2. \A i \in DOMAIN flight : ~ Serve(i) /\ ~ Written(i) /\ ~ Lose(i) /\ ~ OthersAnswered(i)
          BY DEF OthersAnswered, Serve, ServeLogin, Refuse, ServeGet, Apply, CopyTokens, ReadConfig, Truncate,
                WriteConfig, Written, Lose, pageVars
    <3> QED
          BY <3>1, <3>2, <3>3 DEF Next, Answer
  <2>2. Honest(flight[i], sessions, logins) /\ flight \in Seq(Req)
        BY DEF AdminInv, AdminTypes, FlightHonest, FlightTypes
  <2>3. RemoveAt(flight, i) \in Seq(Req) /\ Len(RemoveAt(flight, i)) = Len(flight) - 1
        BY <2>2, Removed
  <2>6. ServerTypes /\ logins \in Nat
        BY DEF AdminInv, AdminTypes, ServerTypes
  <2>4. CASE LoggedIn(i)
    <3> DEFINE s == flight[i].session
    <3>1. /\ flight[i].kind = "login" /\ flight[i].stage = "ok" /\ token' = s
          /\ Send(i, <<Get("agents", s), Get("list", s)>>)
          BY <2>4 DEF LoggedIn
    <3>2. s \notin {0, token} /\ s <= logins
          BY <2>2, <3>1 DEF Honest
    <3>0. s \in 0 .. logins
      <4>1. flight[i] \in Req
            BY <2>1, <2>2
      <4>2. s \in Nat
            BY <4>1 DEF Req
      <4> QED
            BY <2>6, <3>2, <4>2
    <3> DEFINE rest == RemoveAt(flight, i)
               reqs == <<Get("agents", s), Get("list", s)>>
    <3>3. Fresh(reqs)
          BY <2>6, <3>0, <3>2, GetsAreFresh
    <3>4. flight' = rest \o reqs
      <4>1. i # 0
            BY <2>1, <2>2
      <4> HIDE DEF reqs
      <4> QED
            BY <3>1, <4>1 DEF Send, reqs
    <3>5. rest \in Seq(Req) /\ Len(rest) = Len(flight) - 1
          BY <2>3
    <3> HIDE DEF rest, reqs
    <3>6. reqs \in Seq(Req)
          BY <3>3 DEF Fresh
    <3>7. SubSeq(rest \o reqs, 1, Len(rest)) = rest
          BY <3>5, <3>6, FrontOfConcat
    <3>8. SubSeq(flight', 1, Len(flight) - 1) = rest
          BY <3>4, <3>5, <3>7
    <3>9. Taken(i)
          BY <3>8 DEF Taken, rest
    <3> QED
          BY <2>1, <3>1, <3>2, <3>9
  <2>5. CASE AgentsFetched(i) \/ TokensFetched(i)
    <3>1. flight[i].kind # "login" /\ flight[i].stage = "refused"
          BY <2>5 DEF AgentsFetched, TokensFetched
    <3>2. flight[i].session \notin {0, token}
          BY <2>2, <3>1 DEF Honest, Saving
    <3>3. flight' = RemoveAt(flight, i)
          BY <2>1, <2>3, <2>5, <3>1 DEF AgentsFetched, TokensFetched, Send
    <3>4. Taken(i)
          BY <2>3, <3>3 DEF Taken
    <3> QED
          BY <2>1, <3>1, <3>2, <3>4
  <2> QED
        BY <2>1, <2>4, <2>5
<1> QED
    BY <1>1, AdminInvHolds, PTL DEF Spec, KnownLoginStays

------------------------------------------------------------------------------
(* A page that waits for nothing shows the tokens the server has.           *)

\* A list that will bring what the server has, or that is known to come too late.
Brings(r, ts) == r.kind = "list" /\ (r.late \/ r.stage \in {"sent", "refused"} \/ r.toks = ts)

\* A write of this page that has changed a token, and whose answer is not there yet.
Changes(r) == r.own /\ r.kind \in Write /\ r.stage \in Saving \cup {"ok", "lost"}

WriteIsPending == \E i \in DOMAIN flight : Changes(flight[i])

\* A list that is out of date is followed by one that is not.
OldListsAreFollowed ==
    \A k \in DOMAIN flight : flight[k].kind = "list" /\ ~ Brings(flight[k], tokens)
        => \E j \in DOMAIN flight : j > k /\ Brings(flight[j], tokens)

TableComes == table = tokens \/ behind \/ \E i \in DOMAIN flight : Brings(flight[i], tokens)

TableInv == token # 0 => WriteIsPending \/ (OldListsAreFollowed /\ TableComes)

------------------------------------------------------------------------------
(* How requests move.                                                       *)

\* The requests stay but for those in out, in their order, and go by pos to their new
\* places, where they are at most later than they were.  All others are new.
Moved(out, pos) ==
    /\ pos \in [DOMAIN flight \ out -> DOMAIN flight']
    /\ \A j \in DOMAIN flight \ out :
           Same(flight'[pos[j]], flight[j]) /\ (flight[j].late => flight'[pos[j]].late)
    /\ \A j, k \in DOMAIN flight \ out : j < k => pos[j] < pos[k]
    /\ \A m \in DOMAIN flight' :
           (\E j \in DOMAIN flight \ out : pos[j] = m) \/ flight'[m].stage = "sent"

\* The place of a request that stays when the i-th one goes.
LEMMA AnswerMoves ==
    ASSUME FlightTypes, NEW i \in DOMAIN flight, NEW fl \in Seq(Req), Len(fl) = Len(flight),
           \A j \in DOMAIN flight : Same(fl[j], flight[j]) /\ (flight[j].late => fl[j].late),
           NEW reqs, Fresh(reqs), flight' = RemoveAt(fl, i) \o reqs
    PROVE  \E pos : Moved({i}, pos) /\ \A j \in DOMAIN flight \ {i} : flight'[pos[j]] = fl[j]
<1> DEFINE n   == Len(flight) - 1
           pos == [j \in DOMAIN flight \ {i} |-> IF j < i THEN j ELSE j - 1]
<1>0. reqs \in Seq(Req) /\ \A j \in DOMAIN reqs : reqs[j].stage = "sent"
      BY DEF Fresh
<1>1. /\ n \in Nat /\ i \in 1 .. n + 1 /\ DOMAIN flight = 1 .. n + 1
      /\ DOMAIN flight' = 1 .. n + Len(reqs) /\ Len(reqs) \in Nat
      /\ \A j \in 1 .. n : flight'[j] = IF j < i THEN fl[j] ELSE fl[j + 1]
      /\ \A j \in n + 1 .. n + Len(reqs) : flight'[j] = reqs[j - n] /\ j - n \in DOMAIN reqs
      BY <1>0, Answered
<1> HIDE DEF n
<1>2. ASSUME NEW j \in DOMAIN flight \ {i}
      PROVE  /\ pos[j] \in 1 .. n /\ pos[j] \in DOMAIN flight' /\ flight'[pos[j]] = fl[j]
             /\ pos[j] = IF j < i THEN j ELSE j - 1
  <2>1. CASE j < i
    <3>1. pos[j] = j /\ j \in 1 .. n /\ j \in DOMAIN flight'
          BY <1>1, <2>1
    <3> QED
          BY <1>1, <2>1, <3>1
  <2>2. CASE j > i
    <3>1. pos[j] = j - 1 /\ j - 1 \in 1 .. n /\ j - 1 \in DOMAIN flight' /\ ~ (j - 1 < i) /\ ~ (j < i)
          BY <1>1, <2>2
    <3>2. (j - 1) + 1 = j
          BY <1>1
    <3> QED
          BY <1>1, <3>1, <3>2
  <2>3. j < i \/ j > i
        BY <1>1
  <2> QED
        BY <2>1, <2>2, <2>3, Zenon
<1>3. pos \in [DOMAIN flight \ {i} -> DOMAIN flight']
      BY <1>2
<1>4. \A j \in DOMAIN flight \ {i} :
          Same(flight'[pos[j]], flight[j]) /\ (flight[j].late => flight'[pos[j]].late)
      BY <1>2
<1>5. ASSUME NEW j \in DOMAIN flight \ {i}, NEW k \in DOMAIN flight \ {i}, j < k
      PROVE  pos[j] < pos[k]
  <2>1. /\ pos[j] = IF j < i THEN j ELSE j - 1
        /\ pos[k] = IF k < i THEN k ELSE k - 1
        BY <1>2
  <2> QED
        BY <1>1, <1>5, <2>1
<1>6. ASSUME NEW m \in DOMAIN flight'
      PROVE  (\E j \in DOMAIN flight \ {i} : pos[j] = m) \/ flight'[m].stage = "sent"
  <2>1. CASE m <= n /\ m < i
    <3>1. m \in DOMAIN flight \ {i} /\ pos[m] = m
          BY <1>1, <2>1
    <3> QED
          BY <3>1
  <2>2. CASE m <= n /\ m >= i
    <3>1. m \in 1 .. n
          BY <1>1, <2>2
    <3>5. m \in Nat /\ i \in Nat /\ n \in Nat /\ m >= i /\ m <= n /\ 1 <= m
          BY <1>1, <2>2, <3>1
    <3>2. m + 1 \in 1 .. n + 1 /\ m + 1 # i /\ ~ (m + 1 < i) /\ (m + 1) - 1 = m
          BY <3>5
    <3>3. m + 1 \in DOMAIN flight \ {i}
          BY <1>1, <3>2
    <3>4. pos[m + 1] = m
          BY <3>2, <3>3
    <3> QED
          BY <3>3, <3>4
  <2>3. CASE m > n
        BY <1>0, <1>1, <2>3
  <2> QED
        BY <1>1, <2>1, <2>2, <2>3
<1>7. Moved({i}, pos)
      BY <1>3, <1>4, <1>5, <1>6 DEF Moved
<1> QED
      BY <1>2, <1>7

\* New requests come after those that are under way.
LEMMA SendMoves ==
    ASSUME FlightTypes, NEW reqs, Fresh(reqs), flight' = flight \o reqs
    PROVE  \E pos : Moved({}, pos)
<1> DEFINE n   == Len(flight)
           pos == [j \in DOMAIN flight |-> j]
<1>0. /\ flight \in Seq(Req) /\ reqs \in Seq(Req) /\ \A j \in DOMAIN reqs : reqs[j].stage = "sent"
      /\ DOMAIN flight = 1 .. n /\ DOMAIN flight \ {} = DOMAIN flight /\ DOMAIN reqs = 1 .. Len(reqs)
      BY DEF Fresh, FlightTypes
<1>1. /\ n \in Nat /\ Len(reqs) \in Nat /\ DOMAIN flight' = 1 .. n + Len(reqs)
      /\ \A j \in 1 .. n + Len(reqs) : flight'[j] = IF j <= n THEN flight[j] ELSE reqs[j - n]
      BY <1>0, Joined
<1>2. \A j \in DOMAIN flight : j \in DOMAIN flight' /\ flight'[j] = flight[j]
      BY <1>0, <1>1
<1>3. \A m \in DOMAIN flight' : m \in DOMAIN flight \/ flight'[m].stage = "sent"
      BY <1>0, <1>1
<1>4. Moved({}, pos)
      BY <1>0, <1>2, <1>3 DEF Moved, Same
<1> QED
      BY <1>4

------------------------------------------------------------------------------
(* What keeps the table.                                                    *)

\* What a request will bring does not depend on anything but what stays the same.
LEMMA SameBrings ==
    ASSUME NEW r, NEW q, NEW ts, Same(r, q), q.late => r.late
    PROVE  (Brings(q, ts) => Brings(r, ts)) /\ (Changes(q) <=> Changes(r))
BY DEF Same, Brings, Changes

\* As requests move, nothing is lost but what is taken out.
LEMMA MovedTable ==
    ASSUME NEW out, NEW pos, Moved(out, pos), DOMAIN flight' \subseteq Nat,
           \A k \in out : ~ Changes(flight[k]) /\ flight[k].kind # "list",
           UNCHANGED tokens, TableInv, token' # 0 => token # 0,
           table = tokens \/ behind => table' = tokens \/ behind'
    PROVE  TableInv'
<1> SUFFICES ASSUME token' # 0
             PROVE  WriteIsPending' \/ (OldListsAreFollowed' /\ TableComes')
      BY DEF TableInv
<1>1. \A j \in DOMAIN flight \ out : /\ pos[j] \in DOMAIN flight'
                                     /\ Brings(flight[j], tokens) => Brings(flight'[pos[j]], tokens)
                                     /\ Changes(flight[j]) => Changes(flight'[pos[j]])
      BY SameBrings DEF Moved
<1>2. WriteIsPending => WriteIsPending'
      BY <1>1 DEF WriteIsPending
<1>3. ASSUME OldListsAreFollowed PROVE OldListsAreFollowed'
  <2> SUFFICES ASSUME NEW m \in DOMAIN flight', flight'[m].kind = "list",
                      ~ Brings(flight'[m], tokens)
               PROVE  \E l \in DOMAIN flight' : l > m /\ Brings(flight'[l], tokens)
        BY DEF OldListsAreFollowed
  <2>1. flight'[m].stage # "sent"
        BY DEF Brings
  <2>2. PICK k \in DOMAIN flight \ out : pos[k] = m
        BY <2>1 DEF Moved
  <2>3. flight[k].kind = "list" /\ ~ Brings(flight[k], tokens)
        BY <1>1, <2>2 DEF Moved, Same
  <2>4. PICK j \in DOMAIN flight : j > k /\ Brings(flight[j], tokens)
        BY <1>3, <2>3 DEF OldListsAreFollowed
  <2>5. j \in DOMAIN flight \ out
        BY <2>4 DEF Brings
  <2>6. pos[k] < pos[j]
        BY <2>2, <2>4, <2>5 DEF Moved
  <2>7. pos[j] \in DOMAIN flight' /\ pos[j] > m /\ Brings(flight'[pos[j]], tokens)
        BY <1>1, <2>2, <2>4, <2>5, <2>6
  <2> QED
        BY <2>7
<1>4. ASSUME TableComes PROVE TableComes'
  <2>1. CASE table = tokens \/ behind
        BY <2>1 DEF TableComes
  <2>2. CASE \E i \in DOMAIN flight : Brings(flight[i], tokens)
    <3>1. PICK i \in DOMAIN flight : Brings(flight[i], tokens)
          BY <2>2
    <3>2. i \in DOMAIN flight \ out
          BY <3>1 DEF Brings
    <3> QED
          BY <1>1, <3>1, <3>2 DEF TableComes
  <2> QED
        BY <1>4, <2>1, <2>2 DEF TableComes
<1> QED
      BY <1>2, <1>3, <1>4 DEF TableInv

\* A list that was just sent is the last to come.
LEMMA ListSentTable ==
    ASSUME flight' \in Seq(Req), NEW m \in DOMAIN flight', flight'[m].kind = "list",
           flight'[m].stage = "sent", \A k \in DOMAIN flight' : k <= m
    PROVE  TableInv'
<1>1. Brings(flight'[m], tokens')
      BY DEF Brings
<1>2. OldListsAreFollowed'
  <2> SUFFICES ASSUME NEW k \in DOMAIN flight', ~ Brings(flight'[k], tokens')
               PROVE  \E j \in DOMAIN flight' : j > k /\ Brings(flight'[j], tokens')
        BY DEF OldListsAreFollowed
  <2>1. k # m /\ k <= m /\ k \in Nat /\ m \in Nat
        BY <1>1
  <2> QED
        BY <1>1, <2>1
<1>3. TableComes'
      BY <1>1 DEF TableComes
<1> QED
      BY <1>2, <1>3 DEF TableInv
------------------------------------------------------------------------------
(* The server's steps.                                                      *)

\* A handler that changes one request leaves what is to come.
LEMMA TouchedTable ==
    ASSUME NEW i \in DOMAIN flight, NEW r, Touched(i, r), r.kind = flight[i].kind,
           r.kind = "list" => Brings(r, tokens), Changes(flight[i]) => Changes(r),
           UNCHANGED <<tokens, table, behind, token>>, TableInv
    PROVE  TableInv'
<1>1. /\ DOMAIN flight' = DOMAIN flight
      /\ \A j \in DOMAIN flight : flight'[j] = IF j = i THEN r ELSE flight[j]
      BY DEF Touched
<1>2. ASSUME NEW j \in DOMAIN flight
      PROVE  /\ flight'[j].kind = flight[j].kind
             /\ Brings(flight[j], tokens) => Brings(flight'[j], tokens)
             /\ Changes(flight[j]) => Changes(flight'[j])
  <2>1. flight'[j] = IF j = i THEN r ELSE flight[j]
        BY <1>1
  <2>2. CASE j = i
    <3>1. flight'[j] = r /\ (Brings(flight[j], tokens) => r.kind = "list")
          BY <2>1, <2>2 DEF Brings
    <3> QED
          BY <2>2, <3>1
  <2>3. CASE j # i
    <3>1. flight'[j] = flight[j]
          BY <2>1, <2>3
    <3> QED
          BY <3>1
  <2> QED
        BY <2>2, <2>3
<1>3. WriteIsPending => WriteIsPending'
      BY <1>1, <1>2 DEF WriteIsPending
<1>4. OldListsAreFollowed => OldListsAreFollowed'
  <2> SUFFICES ASSUME OldListsAreFollowed, NEW k \in DOMAIN flight, flight'[k].kind = "list",
                      ~ Brings(flight'[k], tokens)
               PROVE  \E j \in DOMAIN flight : j > k /\ Brings(flight'[j], tokens)
        BY <1>1 DEF OldListsAreFollowed
  <2>1. flight[k].kind = "list" /\ ~ Brings(flight[k], tokens)
        BY <1>2
  <2>2. PICK j \in DOMAIN flight : j > k /\ Brings(flight[j], tokens)
        BY <2>1 DEF OldListsAreFollowed
  <2> QED
        BY <1>2, <2>2
<1>5. TableComes => TableComes'
      BY <1>1, <1>2 DEF TableComes
<1> QED
      BY <1>3, <1>4, <1>5 DEF TableInv

\* Every step of a handler keeps the table's invariant.
LEMMA ServeTable ==
    ASSUME AdminInv, TableInv, NEW i \in DOMAIN flight, Serve(i)
    PROVE  TableInv'
<1> USE DEF AdminInv, AdminTypes
<1>0. /\ flight[i] \in Req /\ Honest(flight[i], sessions, logins) /\ flight[i].toks \in Table
      /\ flight[i].rest \in BOOLEAN /\ logins \in Nat
      BY Asked
<1>1. UNCHANGED <<table, behind, token>>
      BY DEF Serve, ServeLogin, Refuse, ServeGet, Apply, CopyTokens, ReadConfig, Truncate,
            WriteConfig, serverVars, pageVars
<1>2. ASSUME NEW stage \in Stages, flight' = [flight EXCEPT ![i].stage = stage],
             flight[i].kind = "list" => stage = "refused",
             Changes(flight[i]) => stage \in Saving \cup {"ok"}, UNCHANGED tokens
      PROVE  TableInv'
  <2> DEFINE r == [flight[i] EXCEPT !.stage = stage]
  <2>1. r \in Req /\ r.kind = flight[i].kind /\ r.stage = stage /\ r.own = flight[i].own
        BY <1>0 DEF Req
  <2> HIDE DEF r
  <2>2. flight' = [flight EXCEPT ![i] = r]
        BY <1>2 DEF r, FlightTypes
  <2>3. Touched(i, r)
        BY <2>1, <2>2, OneTouched
  <2> QED
        BY <1>1, <1>2, <2>1, <2>3, TouchedTable DEF Brings, Changes
<1>3. CASE ServeLogin(i)
  <2>1. flight[i].kind = "login" /\ UNCHANGED tokens /\ ~ Changes(flight[i])
        BY <1>3 DEF ServeLogin, Changes, Write
  <2>2. CASE Advance(i, "failed")
        BY <1>2, <2>1, <2>2 DEF Advance, Stages, Done
  <2>3. CASE flight' = [flight EXCEPT ![i].stage = "ok", ![i].session = logins + 1]
    <3> DEFINE r == [flight[i] EXCEPT !.stage = "ok", !.session = logins + 1]
    <3>0. logins + 1 \in Nat /\ "ok" \in Stages
          BY <1>0 DEF Stages, Done
    <3>1. r \in Req /\ r.kind = "login"
          BY <1>0, <2>1, <3>0 DEF Req
    <3> HIDE DEF r
    <3>2. flight' = [flight EXCEPT ![i] = r]
          BY <1>0, <2>3 DEF r, FlightTypes
    <3>3. Touched(i, r)
          BY <3>1, <3>2, OneTouched
    <3> QED
          BY <1>1, <2>1, <3>1, <3>3, TouchedTable
  <2> QED
        BY <1>3, <2>2, <2>3 DEF ServeLogin
<1>4. CASE Refuse(i)
  <2>1. /\ flight' = [flight EXCEPT ![i].stage = "refused"] /\ UNCHANGED tokens
        /\ flight[i].stage = "sent" /\ "refused" \in Stages
        BY <1>4 DEF Refuse, Advance, serverVars, Stages, Done
  <2> QED
        BY <1>2, <2>1 DEF Changes, Saving
<1>5. CASE ServeGet(i)
  <2> DEFINE ts == IF flight[i].kind = "list" THEN tokens ELSE NoTokens
             r  == [flight[i] EXCEPT !.stage = "ok", !.toks = ts]
  <2>1. ts \in Table /\ "ok" \in Stages /\ (flight[i].kind = "list" => ts = tokens)
        BY DEF ServerTypes, NoTokens, Table, Stages, Done
  <2>2. flight' = [flight EXCEPT ![i].stage = "ok", ![i].toks = ts] /\ UNCHANGED tokens
        BY <1>5 DEF ServeGet, serverVars
  <2> HIDE DEF ts
  <2>3. r \in Req /\ r.kind = flight[i].kind /\ r.toks = ts
        BY <1>0, <2>1 DEF Req
  <2> HIDE DEF r
  <2>4. flight' = [flight EXCEPT ![i] = r]
        BY <2>2 DEF r, FlightTypes
  <2>5. Touched(i, r)
        BY <2>3, <2>4, OneTouched
  <2>6. ~ Changes(flight[i])
        BY <1>5 DEF ServeGet, Changes, Write
  <2> QED
        BY <1>1, <2>1, <2>2, <2>3, <2>5, <2>6, TouchedTable DEF Brings
<1>6. CASE Apply(i)
  <2>1. flight[i].kind \in Write /\ flight[i].stage = "sent" /\ flight[i].own = TRUE
        BY <1>0, <1>6 DEF Apply, Admitted, Honest, Saving, Req
  <2>2. CASE Advance(i, "failed") /\ UNCHANGED tokens
        BY <1>2, <2>1, <2>2 DEF Advance, Stages, Done, Changes, Saving, Write
  <2>3. CASE Advance(i, "applied")
    <3>1. DOMAIN flight' = DOMAIN flight /\ Changes(flight'[i])
          BY <1>0, <2>1, <2>3 DEF Advance, Changes, Saving, Req, FlightTypes
    <3> QED
          BY <3>1 DEF TableInv, WriteIsPending
  <2> QED
        BY <1>6, <2>2, <2>3 DEF Apply
<1>7. CASE CopyTokens(i) \/ ReadConfig(i) \/ Truncate(i) \/ WriteConfig(i)
  <2>1. flight[i].stage \in Saving
        BY <1>7 DEF CopyTokens, ReadConfig, Truncate, WriteConfig, Saving
  <2>2. flight[i].kind \in Write
        BY <1>0, <2>1 DEF Honest
  <2>3. /\ flight'[i].kind = flight[i].kind /\ flight'[i].own = flight[i].own
        /\ DOMAIN flight' = DOMAIN flight /\ Len(flight') = Len(flight)
        /\ \A j \in DOMAIN flight : j # i => flight'[j] = flight[j]
        BY <1>0, <1>7 DEF CopyTokens, ReadConfig, Truncate, WriteConfig, GiveUpSave, Saved, Advance,
                         Req, FlightTypes
  <2>4. flight'[i].stage \in Saving \cup {"ok"}
        BY <1>0, <1>7 DEF CopyTokens, ReadConfig, Truncate, WriteConfig, GiveUpSave, Saved, Advance,
                         Req, FlightTypes, Saving
  <2>5. flight' \in Seq(Req)
        BY ServeStep DEF FlightTypes
  <2>6. Touched(i, flight'[i])
        BY <2>3, <2>5 DEF Touched
  <2>7. UNCHANGED tokens
        BY <1>7 DEF CopyTokens, ReadConfig, Truncate, WriteConfig, serverVars
  <2>8. flight'[i].kind # "list"
        BY <2>2, <2>3 DEF Write
  <2> QED
        BY <1>1, <2>2, <2>3, <2>4, <2>6, <2>7, <2>8, TouchedTable DEF Changes
<1> QED
      BY <1>3, <1>4, <1>5, <1>6, <1>7 DEF Serve

\* A crash keeps what is under way of a list or a write, and tells when it loses a change.
LEMMA RestartTable ==
    ASSUME AdminInv, TableInv, Restart
    PROVE  TableInv'
<1> USE DEF AdminInv, AdminTypes
<1>1. flight' = [i \in DOMAIN flight |->
                     [flight[i] EXCEPT !.stage = IF flight[i].stage \in Saving THEN "lost"
                                                 ELSE flight[i].stage,
                                       !.late  = flight[i].kind = "list"]]
      BY DEF Restart
<1>2. DOMAIN flight' = DOMAIN flight /\ flight \in Seq(Req)
      BY <1>1, Zenon DEF FlightTypes
<1>3. ASSUME NEW j \in DOMAIN flight
      PROVE  /\ flight'[j].kind = flight[j].kind
             /\ flight[j].kind = "list" => flight'[j].late
             /\ Changes(flight[j]) => Changes(flight'[j])
  <2> DEFINE stage == IF flight[j].stage \in Saving THEN "lost" ELSE flight[j].stage
             late  == flight[j].kind = "list"
  <2>0. flight[j] \in Req
        BY <1>2
  <2>1. flight'[j] = [flight[j] EXCEPT !.stage = stage, !.late = late]
        BY <1>1, <2>0, Zenon
  <2>2. flight[j].stage \in Saving \cup {"ok", "lost"} => stage \in {"ok", "lost"}
        BY DEF Saving
  <2> HIDE DEF stage
  <2>3. flight'[j].kind = flight[j].kind /\ flight'[j].stage = stage /\ flight'[j].own = flight[j].own
        BY <2>0, <2>1 DEF Req
  <2>4. flight'[j].late = late
        BY <2>0, <2>1, Zenon DEF Req
  <2> QED
        BY <2>2, <2>3, <2>4 DEF Changes
<1>4. \A j \in DOMAIN flight' : flight'[j].kind = "list" => Brings(flight'[j], tokens')
      BY <1>2, <1>3 DEF Brings
<1>5. WriteIsPending => WriteIsPending'
      BY <1>2, <1>3 DEF WriteIsPending
<1>6. OldListsAreFollowed'
      BY <1>4 DEF OldListsAreFollowed
<1>7. TableComes => TableComes'
  <2>1. CASE \E i \in DOMAIN flight : Brings(flight[i], tokens)
    <3>1. PICK i \in DOMAIN flight : flight[i].kind = "list"
          BY <2>1 DEF Brings
    <3> QED
          BY <1>2, <1>3, <1>4, <3>1 DEF TableComes
  <2>2. CASE table = tokens \/ behind
    <3>1. behind' = (behind \/ tokens' # tokens) /\ table' = table
          BY DEF Restart
    <3> QED
          BY <2>2, <3>1 DEF TableComes
  <2> QED
        BY <2>1, <2>2 DEF TableComes
<1>8. token' = token
      BY DEF Restart
<1> QED
      BY <1>5, <1>6, <1>7, <1>8 DEF TableInv

\* Another page's change leaves no list that it could mislead.
LEMMA OthersTable ==
    ASSUME AdminInv, NEW d \in Devices, NEW s \in Secrets \cup {None}, OthersWrite(d, s)
    PROVE  TableInv'
<1> DEFINE n == Len(flight)
<1>1. /\ n \in Nat /\ DOMAIN flight = 1 .. n /\ DOMAIN flight' = 1 .. n + 1
      /\ \A j \in 1 .. n : /\ Same(flight'[j], flight[j])
                          /\ flight'[j].late = (flight[j].late \/ Overtaken(flight[j]))
      /\ flight'[n + 1].kind \in Write
      BY OthersFlight
<1>2. behind' = TRUE
      BY DEF OthersWrite
<1> HIDE DEF n
<1>3. ASSUME NEW j \in DOMAIN flight', flight'[j].kind = "list"
      PROVE  Brings(flight'[j], tokens')
  <2>1. j \in 1 .. n
        BY <1>1, <1>3 DEF Write
  <2>2. flight'[j].kind = flight[j].kind /\ flight'[j].stage = flight[j].stage
        BY <1>1, <2>1 DEF Same
  <2>3. flight[j].stage # "sent" => flight'[j].late
    <3>1. flight'[j].late = (flight[j].late \/ Overtaken(flight[j]))
          BY <1>1, <2>1
    <3>2. flight[j].stage # "sent" => Overtaken(flight[j])
          BY <1>3, <2>2 DEF Overtaken
    <3> QED
          BY <3>1, <3>2, Zenon
  <2> QED
        BY <1>3, <2>2, <2>3 DEF Brings
<1> QED
      BY <1>2, <1>3 DEF TableInv, OldListsAreFollowed, TableComes

------------------------------------------------------------------------------
(* The page's steps.                                                        *)

\* Requests are sent by a page that is logged in.
LEMMA SentTable ==
    ASSUME AdminInv, AdminInv', TableInv, NEW reqs, Fresh(reqs), Send(0, reqs),
           UNCHANGED <<tokens, table, behind, token>>
    PROVE  TableInv'
<1>1. flight' = flight \o reqs /\ FlightTypes /\ DOMAIN flight' \subseteq Nat
      BY DEF Send, AdminInv, AdminTypes, FlightTypes
<1>2. PICK pos : Moved({}, pos)
      BY <1>1, SendMoves
<1> QED
      BY <1>1, <1>2, MovedTable

\* What the page does of its own accord keeps it.
LEMMA ClickTable ==
    ASSUME AdminInv, AdminInv', TableInv, Click \/ PollAgents
    PROVE  TableInv'
<1>1. ServerTypes /\ token \in 0 .. logins
      BY DEF AdminInv, AdminTypes, PageTypes
<1>2. CASE Logout \/ HandleLogin
      BY <1>2 DEF Logout, HandleLogin, LoginForm, TableInv
<1>3. CASE PollAgents
  <2>1. Fresh(<<Get("agents", token)>>)
        BY <1>1, <1>3, GetsAreFresh DEF PollAgents
  <2> QED
        BY <1>3, <2>1, SentTable DEF PollAgents, serverVars, pageVars
<1>4. CASE FetchTokens
  <2>1. Fresh(<<Get("list", token)>>)
        BY <1>1, <1>4, GetsAreFresh DEF FetchTokens
  <2> QED
        BY <1>4, <2>1, SentTable DEF FetchTokens, serverVars, pageVars
<1>5. ASSUME NEW kind \in Write, NEW d \in Devices, NEW s \in Secrets \cup {None},
             SendWrite(Request(kind, token, d, s)), UNCHANGED <<serverVars, pageVars>>
      PROVE  TableInv'
  <2> DEFINE r == Request(kind, token, d, s)
  <2>1. token \in 1 .. logins
        BY <1>1, <1>5, AdminAssumption DEF SendWrite, ServerTypes
  <2>2. r \in Req /\ r.stage = "sent" /\ Honest(r, sessions, logins)
        BY <1>1, <2>1, WriteIsFresh
  <2> HIDE DEF r
  <2>3. Fresh(<<r>>)
        BY <2>2, FreshOnes
  <2>4. Send(0, <<r>>)
        BY <1>5 DEF SendWrite, r
  <2> QED
        BY <1>5, <2>3, <2>4, SentTable DEF serverVars, pageVars
<1>6. ASSUME NEW d \in Devices, NEW s \in Secrets \cup {None}, AddToken(d, s) \/ UpdateToken(d, s)
      PROVE  TableInv'
      BY <1>5, <1>6 DEF AddToken, UpdateToken, Write
<1>7. ASSUME NEW d \in Devices, DeleteToken(d)
      PROVE  TableInv'
      BY <1>5, <1>7 DEF DeleteToken, Write
<1> QED
      BY <1>2, <1>3, <1>4, <1>6, <1>7 DEF Click

\* An answer that is neither a list nor that of a change.
LEMMA TakenTable ==
    ASSUME AdminInv, AdminInv', TableInv, NEW i \in DOMAIN flight,
           flight[i].kind # "list", ~ Changes(flight[i]), flight' = RemoveAt(flight, i) \o <<>>,
           UNCHANGED <<tokens, table>>, behind' = behind, token' # 0 => token # 0
    PROVE  TableInv'
<1>1. FlightTypes /\ DOMAIN flight' \subseteq Nat /\ flight \in Seq(Req)
      BY DEF AdminInv, AdminTypes, FlightTypes
<1>2. Fresh(<<>>) /\ \A j \in DOMAIN flight : Same(flight[j], flight[j])
      BY DEF Fresh, Same
<1>3. PICK pos : Moved({i}, pos)
      BY <1>1, <1>2, AnswerMoves
<1> QED
      BY <1>1, <1>3, MovedTable

\* An answer after which the list is fetched.
LEMMA FollowedTable ==
    ASSUME AdminInv, AdminInv', NEW i \in DOMAIN flight, NEW reqs \in Seq(Req),
           flight' = RemoveAt(flight, i) \o reqs,
           NEW l \in DOMAIN reqs, l = Len(reqs), reqs[l].kind = "list", reqs[l].stage = "sent"
    PROVE  TableInv'
<1> DEFINE n == Len(flight) - 1
<1>1. FlightTypes /\ flight \in Seq(Req) /\ flight' \in Seq(Req) /\ l \in 1 .. Len(reqs)
      BY DEF AdminInv, AdminTypes, FlightTypes
<1>2. /\ n \in Nat /\ DOMAIN flight' = 1 .. n + Len(reqs) /\ Len(reqs) \in Nat
      /\ \A j \in n + 1 .. n + Len(reqs) : flight'[j] = reqs[j - n]
  <2> DEFINE new == RemoveAt(flight, i) \o reqs
  <2>1. /\ n \in Nat /\ i \in 1 .. n + 1 /\ DOMAIN flight = 1 .. n + 1
        /\ new \in Seq(Req) /\ Len(new) = n + Len(reqs) /\ DOMAIN new = 1 .. n + Len(reqs)
        /\ Len(reqs) \in Nat
        /\ \A j \in 1 .. n : new[j] = IF j < i THEN flight[j] ELSE flight[j + 1]
        /\ \A j \in n + 1 .. n + Len(reqs) : new[j] = reqs[j - n] /\ j - n \in DOMAIN reqs
        BY <1>1, Answered, Zenon
  <2>2. flight' = new
        OBVIOUS
  <2> HIDE DEF new, n
  <2> QED
        BY <2>1, <2>2
<1> HIDE DEF n
<1>3. n + l \in n + 1 .. n + Len(reqs) /\ (n + l) - n = l /\ n + l \in DOMAIN flight'
      BY <1>1, <1>2
<1>4. flight'[n + l] = reqs[l]
      BY <1>2, <1>3
<1>5. \A k \in DOMAIN flight' : k <= n + l
      BY <1>2
<1> QED
      BY <1>1, <1>3, <1>4, <1>5, ListSentTable

\* The list that comes is current, or late, or followed by another.
LEMMA TokensFetchedTable ==
    ASSUME AdminInv, AdminInv', TableInv, NEW i \in DOMAIN flight, TokensFetched(i)
    PROVE  TableInv'
<1>0. /\ FlightTypes /\ flight[i] \in Req /\ Honest(flight[i], sessions, logins)
      /\ flight[i].kind = "list" /\ UNCHANGED tokens
      BY Asked DEF TokensFetched, AdminInv, AdminTypes, serverVars
<1>1. CASE flight[i].stage # "ok"
  <2>1. flight[i].stage = "refused"
        BY <1>0, <1>1 DEF TokensFetched, Honest, Done
  <2>2. token' = 0
        BY <1>1, <2>1 DEF TokensFetched
  <2> QED
        BY <2>2 DEF TableInv
<1>2. CASE flight[i].stage = "ok"
  <2> DEFINE mark == [j \in DOMAIN flight |->
                         flight[j].late \/ (j < i /\ flight[j].kind = "list")]
             fl   == [j \in DOMAIN flight |-> [flight[j] EXCEPT !.late = mark[j]]]
  <2>1. mark \in [DOMAIN flight -> BOOLEAN]
        BY Zenon
  <2>2. flight' = RemoveAt(fl, i)
        BY <1>2, Zenon DEF TokensFetched
  <2>3. \A j \in DOMAIN flight :
            /\ flight[j].late => mark[j]
            /\ j < i /\ flight[j].kind = "list" => mark[j]
        BY Zenon
  <2>4. table' = flight[i].toks /\ token' = token
        BY <1>2 DEF TokensFetched
  <2>5. flight[i].late => behind'
        BY <1>2 DEF TokensFetched
  <2> HIDE DEF mark
  <2>6. /\ fl \in Seq(Req) /\ Len(fl) = Len(flight)
        /\ \A j \in DOMAIN flight : Same(fl[j], flight[j])
        BY <1>0, <2>1, MarkedIsSame
  <2>7. ASSUME NEW j \in DOMAIN flight PROVE fl[j].late = mark[j]
    <3>1. flight[j] \in Req
          BY <1>0 DEF FlightTypes
    <3> QED
          BY <3>1, Zenon DEF Req
  <2> HIDE DEF fl
  <2>8. \A j \in DOMAIN flight : Same(fl[j], flight[j]) /\ (flight[j].late => fl[j].late)
        BY <2>3, <2>6, <2>7
  <2>9. Fresh(<<>>) /\ flight' = RemoveAt(fl, i) \o <<>>
    <3>1. i \in DOMAIN fl
          BY <1>0, <2>6 DEF FlightTypes
    <3>2. RemoveAt(fl, i) \in Seq(Req)
          BY <2>6, <3>1, Removed
    <3> QED
          BY <2>2, <3>2 DEF Fresh
  <2>10. PICK pos : Moved({i}, pos) /\ \A j \in DOMAIN flight \ {i} : flight'[pos[j]] = fl[j]
        BY <1>0, <2>6, <2>8, <2>9, AnswerMoves
  <2>11. \A j \in DOMAIN flight \ {i} :
             /\ pos[j] \in DOMAIN flight'
             /\ Brings(flight[j], tokens) => Brings(flight'[pos[j]], tokens)
             /\ Changes(flight[j]) => Changes(flight'[pos[j]])
        BY <2>10, SameBrings DEF Moved
  <2>12. WriteIsPending => WriteIsPending'
    <3>1. ~ Changes(flight[i])
          BY <1>0 DEF Changes, Write
    <3> QED
          BY <2>11, <3>1 DEF WriteIsPending
  <2>13. DOMAIN flight \subseteq Nat /\ DOMAIN flight' \subseteq Nat
        BY <1>0 DEF FlightTypes, AdminInv, AdminTypes
  <2>14. ASSUME OldListsAreFollowed PROVE OldListsAreFollowed'
    <3> SUFFICES ASSUME NEW m \in DOMAIN flight', flight'[m].kind = "list",
                        ~ Brings(flight'[m], tokens)
                 PROVE  \E l \in DOMAIN flight' : l > m /\ Brings(flight'[l], tokens)
          BY <1>0 DEF OldListsAreFollowed
    <3>1. flight'[m].stage # "sent"
          BY DEF Brings
    <3>2. PICK k \in DOMAIN flight \ {i} : pos[k] = m
          BY <2>10, <3>1 DEF Moved
    <3>3. flight[k].kind = "list" /\ ~ Brings(flight[k], tokens) /\ ~ flight'[m].late
          BY <2>10, <2>11, <3>2 DEF Moved, Same, Brings
    <3>4. PICK j \in DOMAIN flight : j > k /\ Brings(flight[j], tokens)
          BY <2>14, <3>3 DEF OldListsAreFollowed
    <3>5. ~ (k < i)
          BY <2>3, <2>7, <2>10, <3>2, <3>3
    <3>6. j # i
          BY <2>13, <3>4, <3>5
    <3>7. pos[k] < pos[j] /\ pos[j] \in DOMAIN flight' /\ Brings(flight'[pos[j]], tokens)
          BY <2>10, <2>11, <3>4, <3>6 DEF Moved
    <3> QED
          BY <2>13, <3>2, <3>7
  <2>15. ASSUME OldListsAreFollowed PROVE TableComes'
    <3>1. CASE flight[i].late \/ flight[i].toks = tokens
          BY <1>0, <2>4, <2>5, <3>1 DEF TableComes
    <3>2. CASE ~ flight[i].late /\ flight[i].toks # tokens
      <4>1. ~ Brings(flight[i], tokens)
            BY <1>2, <3>2 DEF Brings
      <4>2. PICK j \in DOMAIN flight : j > i /\ Brings(flight[j], tokens)
            BY <1>0, <2>15, <4>1 DEF OldListsAreFollowed
      <4>3. j \in DOMAIN flight \ {i}
            BY <2>13, <4>2
      <4> QED
            BY <1>0, <2>11, <4>2, <4>3 DEF TableComes
    <3> QED
          BY <3>1, <3>2
  <2> QED
        BY <2>4, <2>12, <2>14, <2>15 DEF TableInv
<1> QED
      BY <1>1, <1>2
\* Nothing follows an answer that is taken alone.
LEMMA TakenAlone ==
    ASSUME AdminInv, NEW i \in DOMAIN flight, NEW fl \in Seq(Req), Len(fl) = Len(flight)
    PROVE  RemoveAt(fl, i) = RemoveAt(fl, i) \o <<>>
<1>1. i \in DOMAIN fl
      BY DEF AdminInv, AdminTypes, FlightTypes
<1>2. RemoveAt(fl, i) \in Seq(Req)
      BY <1>1, Removed
<1> QED
      BY <1>2

\* So do the other answers.
LEMMA AnswerTable ==
    ASSUME AdminInv, AdminInv', TableInv, NEW i \in DOMAIN flight,
           LoggedIn(i) \/ AgentsFetched(i) \/ Written(i)
    PROVE  TableInv'
<1>0. /\ flight[i] \in Req /\ Honest(flight[i], sessions, logins) /\ ServerTypes
      /\ flight[i].session \in 0 .. logins
      BY Asked DEF AdminInv, AdminTypes
<1>1. ASSUME NEW n \in 0 .. logins, n # 0
      PROVE  /\ <<Get("list", n)>> \in Seq(Req) /\ <<Get("agents", n), Get("list", n)>> \in Seq(Req)
             /\ Get("list", n).kind = "list" /\ Get("list", n).stage = "sent"
      BY <1>0, <1>1, GetsAreFresh DEF Fresh, Get, Request
<1>2. UNCHANGED <<tokens, table, behind>>
      BY DEF LoggedIn, AgentsFetched, Written, serverVars
<1>3. i # 0
      BY DEF AdminInv, AdminTypes, FlightTypes
<1>4. CASE LoggedIn(i)
  <2>1. CASE flight[i].stage = "ok"
    <3> DEFINE n == flight[i].session
               reqs == <<Get("agents", n), Get("list", n)>>
    <3>1. n # 0 /\ n \in 0 .. logins
          BY <1>0, <1>4, <2>1 DEF LoggedIn, Honest
    <3>2. Send(i, reqs)
          BY <1>4, <2>1 DEF LoggedIn
    <3>3. /\ reqs \in Seq(Req) /\ 2 \in DOMAIN reqs /\ Len(reqs) = 2
          /\ reqs[2].kind = "list" /\ reqs[2].stage = "sent"
          BY <1>1, <3>1
    <3>4. flight' = RemoveAt(flight, i) \o reqs
          BY <1>3, <3>2 DEF Send
    <3> HIDE DEF reqs
    <3> QED
          BY <3>3, <3>4, FollowedTable
  <2>2. CASE flight[i].stage # "ok"
    <3>1. flight' = RemoveAt(flight, i) \o <<>> /\ token' = token /\ flight[i].kind = "login"
          BY <1>3, <1>4, <2>2 DEF LoggedIn, Send
    <3> QED
          BY <1>2, <3>1, TakenTable DEF Changes, Write
  <2> QED
        BY <2>1, <2>2
<1>5. CASE AgentsFetched(i)
  <2>1. /\ flight' = RemoveAt(flight, i) \o <<>> /\ token' \in {0, token}
        /\ flight[i].kind = "agents"
        BY <1>3, <1>5 DEF AgentsFetched, Send
  <2> QED
        BY <1>2, <2>1, TakenTable DEF Changes, Write
<1>6. CASE Written(i)
  <2>1. flight[i].kind \in Write /\ flight[i].kind # "list"
        BY <1>6 DEF Written, Write
  <2>2. CASE flight[i].stage = "ok"
    <3> DEFINE n == flight[i].session
               reqs == <<Get("list", n)>>
    <3>1. n # 0 /\ n \in 0 .. logins
          BY <1>0, <1>6, <2>1, <2>2 DEF Honest, Write, Written
    <3>2. Send(i, reqs)
          BY <1>6, <2>2 DEF Written
    <3>3. /\ reqs \in Seq(Req) /\ 1 \in DOMAIN reqs /\ Len(reqs) = 1
          /\ reqs[1].kind = "list" /\ reqs[1].stage = "sent"
          BY <1>1, <3>1
    <3>4. flight' = RemoveAt(flight, i) \o reqs
          BY <1>3, <3>2 DEF Send
    <3> HIDE DEF reqs
    <3> QED
          BY <3>3, <3>4, FollowedTable
  <2>3. CASE flight[i].stage # "ok"
    <3>1. flight' = RemoveAt(flight, i) \o <<>> /\ token' = token
          BY <1>3, <1>6, <2>3 DEF Written, Send
    <3>2. ~ Changes(flight[i])
          BY <1>6, <2>3 DEF Written, Changes, Done, Saving
    <3> QED
          BY <1>2, <2>1, <3>1, <3>2, TakenTable
  <2> QED
        BY <2>2, <2>3
<1> QED
      BY <1>4, <1>5, <1>6

\* An answer to another page is nothing to this one.
LEMMA OthersAnsweredTable ==
    ASSUME AdminInv, AdminInv', TableInv, NEW i \in DOMAIN flight, OthersAnswered(i)
    PROVE  TableInv'
<1>0. /\ flight[i] \in Req /\ Honest(flight[i], sessions, logins) /\ i # 0
      BY Asked DEF AdminInv, AdminTypes, FlightTypes
<1>1. flight[i].kind \in Write /\ ~ Changes(flight[i])
      BY <1>0 DEF OthersAnswered, Honest, Changes
<1>2. flight' = RemoveAt(flight, i) \o <<>> /\ UNCHANGED <<serverVars, pageVars>>
      BY <1>0 DEF OthersAnswered, Send
<1> QED
      BY <1>1, <1>2, TakenTable DEF Write, serverVars, pageVars

\* What is lost makes the lists late.
LEMMA LoseTable ==
    ASSUME AdminInv, AdminInv', TableInv, NEW i \in DOMAIN flight, Lose(i)
    PROVE  TableInv'
<1>0. FlightTypes /\ flight \in Seq(Req) /\ UNCHANGED <<tokens, table, token>>
      BY DEF Lose, AdminInv, AdminTypes, FlightTypes, serverVars
<1>1. CASE flight[i].kind \notin Write \cup {"list"}
  <2>1. flight' = RemoveAt(flight, i) /\ behind' = behind
        BY <1>1 DEF Lose
  <2>2. flight' = RemoveAt(flight, i) \o <<>>
        BY <1>0, <2>1, TakenAlone
  <2> QED
        BY <1>0, <1>1, <2>1, <2>2, TakenTable DEF Changes
<1>2. CASE flight[i].kind \in Write \cup {"list"}
  <2> DEFINE mark == [j \in DOMAIN flight |-> flight[j].kind = "list"]
             n    == Len(flight) - 1
  <2>1. mark \in [DOMAIN flight -> BOOLEAN]
        BY Zenon
  <2>2. Late(flight) = [j \in DOMAIN flight |-> [flight[j] EXCEPT !.late = mark[j]]]
        BY Zenon DEF Late
  <2>3. \A j \in DOMAIN flight : flight[j].kind = "list" => mark[j]
        BY Zenon
  <2>4. flight' = RemoveAt(Late(flight), i) /\ behind' = TRUE
        BY <1>2 DEF Lose
  <2> HIDE DEF mark
  <2>5. /\ Late(flight) \in Seq(Req) /\ Len(Late(flight)) = Len(flight)
        /\ \A j \in DOMAIN flight : Same(Late(flight)[j], flight[j])
        BY <1>0, <2>1, <2>2, MarkedIsSame
  <2>6. ASSUME NEW j \in DOMAIN flight
        PROVE  Late(flight)[j].kind = "list" => Late(flight)[j].late
    <3>1. flight[j] \in Req
          BY <1>0
    <3>2. Late(flight)[j] = [flight[j] EXCEPT !.late = mark[j]]
          BY <2>2
    <3>3. Late(flight)[j].late = mark[j]
          BY <3>1, <3>2, Zenon DEF Req
    <3>4. Late(flight)[j].kind = flight[j].kind
          BY <2>5 DEF Same
    <3> QED
          BY <2>3, <3>3, <3>4
  <2>7. flight' = RemoveAt(Late(flight), i) \o <<>> /\ <<>> \in Seq(Req) /\ Len(<<>>) = 0
        BY <2>4, <2>5, TakenAlone
  <2>8. /\ n \in Nat /\ i \in 1 .. n + 1 /\ DOMAIN flight = 1 .. n + 1 /\ DOMAIN flight' = 1 .. n + 0
        /\ \A j \in 1 .. n : flight'[j] = IF j < i THEN Late(flight)[j] ELSE Late(flight)[j + 1]
        BY <1>0, <2>5, <2>7, Answered
  <2> HIDE DEF n
  <2>9. ASSUME NEW j \in DOMAIN flight', flight'[j].kind = "list"
        PROVE  Brings(flight'[j], tokens')
    <3>1. /\ j \in 1 .. n /\ j \in DOMAIN flight /\ j + 1 \in DOMAIN flight
          BY <2>8
    <3>2. flight'[j] \in {Late(flight)[j], Late(flight)[j + 1]}
          BY <2>8, <3>1
    <3> QED
          BY <2>6, <2>9, <3>1, <3>2 DEF Brings
  <2>10. OldListsAreFollowed' /\ TableComes'
        BY <2>4, <2>9 DEF OldListsAreFollowed, TableComes
  <2> QED
        BY <2>10 DEF TableInv
<1> QED
      BY <1>1, <1>2

------------------------------------------------------------------------------
(* The invariant and the theorem.                                           *)

\* The invariant is inductive relative to AdminInv.
LEMMA TableInvStep == AdminInv /\ AdminInv' /\ TableInv /\ [Next]_vars => TableInv'
<1> SUFFICES ASSUME AdminInv, AdminInv', TableInv, [Next]_vars PROVE TableInv'
      OBVIOUS
<1>1. ASSUME NEW s \in sessions, Expire(s) PROVE TableInv'
      BY <1>1 DEF Expire, pageVars, TableInv, WriteIsPending, OldListsAreFollowed, TableComes
<1>2. CASE UNCHANGED vars
      BY <1>2 DEF vars, TableInv, WriteIsPending, OldListsAreFollowed, TableComes
<1> QED
      BY <1>1, <1>2, ClickTable, RestartTable, ServeTable, AnswerTable, TokensFetchedTable,
         LoseTable, OthersTable, OthersAnsweredTable DEF Next, Answer

\* A page that is logged in shows the tokens of the server as soon as it waits for
\* neither a write nor a list, unless an answer it needed was lost or overtaken or
\* another page has changed a token since its list was read.
THEOREM QuietPagesAreRight == Spec => []QuietPageShowsTheTable
<1>1. Init => TableInv
      BY DEF Init, TableInv
<1>2. Spec => []TableInv
      BY <1>1, TableInvStep, AdminInvHolds, PTL DEF Spec
<1>3. AdminInv /\ TableInv => QuietPageShowsTheTable
  <2> SUFFICES ASSUME AdminInv, TableInv, token # 0, ~ behind,
                      \A i \in DOMAIN flight :
                          flight[i].own => flight[i].kind \notin Write \cup {"list"}
               PROVE  table = tokens
        BY DEF QuietPageShowsTheTable
  <2>1. \A i \in DOMAIN flight : flight[i].kind # "list"
        BY DEF AdminInv, FlightHonest, Honest, Write
  <2> QED
        BY <2>1 DEF TableInv, WriteIsPending, TableComes, Changes, Brings
<1> QED
    BY <1>2, <1>3, AdminInvHolds, PTL
===============================================================================
