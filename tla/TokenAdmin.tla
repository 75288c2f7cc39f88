------------------------------ MODULE TokenAdmin ------------------------------
(***************************************************************************)
(* The administration of device tokens: the page that shows and edits them *)
(* (src/client/src/pages/AdminPage.tsx), the handlers that serve it, and   *)
(* the configuration file they rewrite (src/server/main.go).               *)
(*                                                                         *)
(* Requests travel on connections of their own, so that they reach the     *)
(* server and come back in any order; flight lists them in the order they  *)
(* were sent.  Handlers run concurrently, and the server may crash between *)
(* any two steps (or because verifyHMAC reads the token map while a        *)
(* handler writes it, which the Go runtime answers by ending the process). *)
(*                                                                         *)
(* One page is modelled with all it keeps.  Of the others that may be open *)
(* there are the requests that change a token, which the server takes like *)
(* those of this page; what such a page shows is the same module again.    *)
(*                                                                         *)
(* Secrets are model values; what the list masks of them is left out.  The *)
(* file is its token block, and whether the rest of it (the password of    *)
(* the page among it) is still there; it is assumed to have one block with *)
(* no line between its tokens that ends it, as saveTokens writes it.  What *)
(* is typed into the forms, which row is being edited, the views and the   *)
(* languages are left out.                                                 *)
(***************************************************************************)
EXTENDS Naturals, SequencesExt

CONSTANTS
    Devices, Secrets,
    None,          \* no secret
    MaxFlight,     \* bound: requests under way at once
    MaxPolls,      \* bound: polls of one login under way at once
    MaxWrites,     \* bound: requests that change a token
    MaxLogins,     \* bound: logins that succeed
    MaxExpiries,   \* bound: an expiry leaves so many logins forgotten
    MaxRestarts    \* bound: crashes

ASSUME AdminAssumption == /\ None \notin Devices \cup Secrets /\ Devices # {}
                          /\ {MaxPolls, MaxWrites, MaxLogins, MaxExpiries, MaxRestarts}
                                \subseteq Nat
                          /\ MaxFlight \in Nat \ {0, 1}

VARIABLES
    tokens,        \* Hub.tokens
    sessions,      \* Hub.adminSessions, by the number of the login
    logins,
    hasPassword,   \* Hub.adminPassword is not empty
    up,            \* the process runs
    restarts,
    file,
    flight,
    token,         \* the page's, by the number of the login, 0 for none
    loginLoading,
    table,         \* the tokens the page shows
    writes,
    overlapped,    \* history: two saves ran at once
    cutShort,      \* history: a write of the file failed or was cut by a crash
    unsaved,       \* history: the last save could not read or open the file
    behind         \* history: an answer that the table needs was lost or overtaken,
                   \* or another page has changed a token since

serverVars == <<tokens, sessions, logins, hasPassword, up, restarts, file, overlapped, cutShort, unsaved>>
pageVars   == <<token, loginLoading, table, behind>>
vars == <<tokens, sessions, logins, hasPassword, up, restarts, file, flight, token, loginLoading,
          table, writes, overlapped, cutShort, unsaved, behind>>

NoTokens == [d \in Devices |-> None]
Config(ts) == [rest |-> TRUE, toks |-> ts]

\* Truncated by os.WriteFile, or written by two at once.
Broken == [rest |-> FALSE, toks |-> NoTokens]

Write == {"create", "update", "delete"}
Done  == {"ok", "refused", "failed"}           \* the answer is on its way
Saving == {"applied", "copied", "read", "cut"} \* where a write is in saveTokens

\* own: of this page.  late: history, an answer it should not believe any more.
Request(kind, session, dev, secret) ==
    [kind |-> kind, session |-> session, dev |-> dev, secret |-> secret, stage |-> "sent",
     toks |-> NoTokens, rest |-> FALSE, own |-> TRUE, late |-> FALSE]

Get(kind, session) == Request(kind, session, None, None)

\* main ends the process when the file has no tokens.
Init ==
    /\ tokens \in {ts \in [Devices -> Secrets \cup {None}] : ts # NoTokens}
    /\ sessions = {} /\ logins = 0 /\ hasPassword = TRUE /\ up = TRUE /\ restarts = 0
    /\ file = Config(tokens)
    /\ flight = <<>>
    /\ token = 0 /\ loginLoading = FALSE /\ table = NoTokens /\ writes = 0
    /\ overlapped = FALSE /\ cutShort = FALSE /\ unsaved = FALSE /\ behind = FALSE

------------------------------------------------------------------------------
(* The server.                                                              *)

InSave(i) == \E j \in DOMAIN flight \ {i} : flight[j].stage \in Saving

Advance(i, stage) == flight' = [flight EXCEPT ![i].stage = stage]

\* Slip: a session is named by how many there are.
CountingServeLogin(i) ==
    LET n == Cardinality(sessions) + 1 IN
    /\ up /\ hasPassword /\ logins < MaxLogins
    /\ flight[i].kind = "login" /\ flight[i].stage = "sent"
    /\ logins' = logins + 1
    /\ sessions' = sessions \cup {n}
    /\ flight' = [flight EXCEPT ![i].stage = "ok", ![i].session = n]
    /\ UNCHANGED <<tokens, hasPassword, up, restarts, file, overlapped, cutShort, unsaved, pageVars,
                   writes>>

\* handleAdminLogin.
ServeLogin(i) ==
    /\ up /\ flight[i].kind = "login" /\ flight[i].stage = "sent"
    /\ IF hasPassword
       THEN \/ /\ logins < MaxLogins
               /\ logins' = logins + 1
               /\ sessions' = sessions \cup {logins + 1}
               /\ flight' = [flight EXCEPT ![i].stage = "ok", ![i].session = logins + 1]
            \/ Advance(i, "failed") /\ UNCHANGED <<logins, sessions>>
       ELSE Advance(i, "failed") /\ UNCHANGED <<logins, sessions>>
    /\ UNCHANGED <<tokens, hasPassword, up, restarts, file, overlapped, cutShort, unsaved, pageVars,
                   writes>>

Admitted(i) == up /\ flight[i].stage = "sent" /\ flight[i].kind # "login"
               /\ flight[i].session \in sessions

\* requireAdmin.
Refuse(i) ==
    /\ up /\ flight[i].kind # "login" /\ flight[i].stage = "sent"
    /\ flight[i].session \notin sessions
    /\ Advance(i, "refused")
    /\ UNCHANGED <<serverVars, pageVars, writes>>

\* handleAdminAgents, handleAdminTokensList.
ServeGet(i) ==
    /\ Admitted(i) /\ flight[i].kind \in {"agents", "list"}
    /\ flight' = [flight EXCEPT ![i].stage = "ok",
                                ![i].toks = IF flight[i].kind = "list" THEN tokens ELSE NoTokens]
    /\ UNCHANGED <<serverVars, pageVars, writes>>

\* handleAdminTokensCreate, -Update, -Delete, up to the end of the critical
\* section: an empty secret is refused (400), and so is an unknown device (404).
Rejected(r) == \/ r.kind \in {"create", "update"} /\ r.secret = None
               \/ r.kind \in {"update", "delete"} /\ tokens[r.dev] = None

Apply(i) ==
    LET r == flight[i] IN
    /\ Admitted(i) /\ r.kind \in Write
    /\ IF Rejected(r)
       THEN Advance(i, "failed") /\ UNCHANGED <<tokens, overlapped>>
       ELSE /\ tokens' = [tokens EXCEPT ![r.dev] = r.secret]
            /\ overlapped' = (overlapped \/ InSave(i))
            /\ Advance(i, "applied")
    /\ UNCHANGED <<sessions, logins, hasPassword, up, restarts, file, cutShort, unsaved, pageVars,
                   writes>>

\* Slip: the answer is sent without the save.
HastyCopyTokens(i) ==
    /\ up /\ flight[i].stage = "applied"
    /\ Advance(i, "ok")
    /\ UNCHANGED <<serverVars, pageVars, writes>>

\* saveTokens: the map is copied under the lock, the file read, truncated and
\* written after it.
CopyTokens(i) ==
    /\ up /\ flight[i].stage = "applied"
    /\ flight' = [flight EXCEPT ![i].stage = "copied", ![i].toks = tokens]
    /\ UNCHANGED <<serverVars, pageVars, writes>>

\* Whether it succeeds or not, the handler answers ok: its error is ignored.
Saved(i, stage) == flight' = [flight EXCEPT ![i].stage = stage, ![i].toks = NoTokens, ![i].rest = FALSE]

\* The file cannot be read, or not be opened for writing: it stays as it is.
GiveUpSave(i) ==
    /\ Saved(i, "ok")
    /\ unsaved' = TRUE
    /\ UNCHANGED file

ReadConfig(i) ==
    /\ up /\ flight[i].stage = "copied"
    /\ \/ /\ flight' = [flight EXCEPT ![i].stage = "read", ![i].rest = file.rest]
          /\ UNCHANGED <<file, unsaved>>
       \/ GiveUpSave(i)
    /\ UNCHANGED <<tokens, sessions, logins, hasPassword, up, restarts, overlapped, cutShort,
                   pageVars, writes>>

Truncate(i) ==
    /\ up /\ flight[i].stage = "read"
    /\ \/ /\ file' = Broken
          /\ Advance(i, "cut")
          /\ UNCHANGED unsaved
       \/ GiveUpSave(i)
    /\ UNCHANGED <<tokens, sessions, logins, hasPassword, up, restarts, overlapped, cutShort,
                   pageVars, writes>>

\* The text that was read, with the lines of the token block replaced, or a block
\* added to a text that has none; every other line is kept.
Rewritten(r) == [rest |-> r.rest, toks |-> r.toks]

\* What a write that fails leaves of it.
Parts(r) == {[rest |-> b, toks |-> ts] : b \in {FALSE, r.rest}, ts \in {NoTokens, r.toks}}
                \ {Rewritten(r)}

\* One that finds the file written since it was truncated mixes the two.
WriteConfig(i) ==
    LET r == flight[i] IN
    /\ up /\ r.stage = "cut"
    /\ \/ /\ file' \in {Rewritten(r)} \cup (IF file = Broken THEN {} ELSE {Broken})
          /\ unsaved' = FALSE
          /\ UNCHANGED cutShort
       \/ /\ file' \in {Broken} \cup Parts(r)
          /\ cutShort' = TRUE
          /\ UNCHANGED unsaved
    /\ Saved(i, "ok")
    /\ UNCHANGED <<tokens, sessions, logins, hasPassword, up, restarts, overlapped,
                   pageVars, writes>>

\* A session ends 24 h after its login.
Expire(s) ==
    /\ s \in sessions /\ Cardinality((1 .. logins) \ sessions) < MaxExpiries
    /\ sessions' = sessions \ {s}
    /\ UNCHANGED <<tokens, logins, hasPassword, up, restarts, file, overlapped, cutShort, unsaved,
                   flight, pageVars, writes>>

\* A crash and the start after it, which fails for good without tokens.  Sessions
\* are gone; what was being handled gets no answer.
Restart ==
    /\ up /\ restarts < MaxRestarts
    /\ restarts' = restarts + 1
    /\ up' = (file.toks # NoTokens)
    /\ tokens' = file.toks /\ hasPassword' = file.rest /\ sessions' = {} /\ unsaved' = FALSE
    /\ cutShort' = (cutShort \/ \E i \in DOMAIN flight : flight[i].stage = "cut")
    /\ behind' = (behind \/ tokens' # tokens)
    /\ flight' = [i \in DOMAIN flight |->
                     [flight[i] EXCEPT !.stage = IF @ \in Saving THEN "lost" ELSE @,
                                       !.late  = flight[i].kind = "list"]]
    /\ UNCHANGED <<logins, file, overlapped, token, loginLoading, table, writes>>

------------------------------------------------------------------------------
(* The page.                                                                *)

\* Some requests follow the answer to the i-th one; 0 for a request of its own.
Send(i, reqs) ==
    /\ flight' = (IF i = 0 THEN flight ELSE RemoveAt(flight, i)) \o reqs
    /\ Len(flight') <= MaxFlight

Late(fl) == [i \in DOMAIN fl |-> [fl[i] EXCEPT !.late = fl[i].kind = "list"]]

\* Without a token the page is the login form, whose button is disabled meanwhile.
LoginForm == token = 0 /\ ~loginLoading

HandleLogin ==
    /\ LoginForm
    /\ loginLoading' = TRUE
    /\ Send(0, <<Get("login", 0)>>)
    /\ UNCHANGED <<serverVars, token, table, behind, writes>>

\* The login is answered: agents and tokens are fetched.
LoggedIn(i) ==
    /\ flight[i].kind = "login" /\ flight[i].stage \in Done
    /\ loginLoading' = FALSE
    /\ IF flight[i].stage = "ok"
       THEN /\ token' = flight[i].session
            /\ Send(i, <<Get("agents", flight[i].session), Get("list", flight[i].session)>>)
       ELSE UNCHANGED token /\ Send(i, <<>>)
    /\ UNCHANGED <<serverVars, table, behind, writes>>

Logout ==
    /\ token # 0
    /\ token' = 0
    /\ UNCHANGED <<serverVars, flight, loginLoading, table, behind, writes>>

\* The interval of 5 s, and a click on the tokens view.  Bounds: MaxPolls, and two
\* lists under way at a time.
PollAgents ==
    /\ token # 0
    /\ Cardinality({i \in DOMAIN flight : flight[i].kind = "agents" /\ flight[i].session = token})
          < MaxPolls
    /\ Send(0, <<Get("agents", token)>>)
    /\ UNCHANGED <<serverVars, pageVars, writes>>

FetchTokens ==
    /\ token # 0
    /\ Cardinality({i \in DOMAIN flight : flight[i].kind = "list"}) < 2
    /\ Send(0, <<Get("list", token)>>)
    /\ UNCHANGED <<serverVars, pageVars, writes>>

\* Slip: 401 is not looked at.
DeafAgentsFetched(i) ==
    /\ flight[i].kind = "agents" /\ flight[i].stage \in Done
    /\ Send(i, <<>>)
    /\ UNCHANGED <<serverVars, pageVars, writes>>

\* Whatever login the request was sent under, a 401 drops the token of now.
AgentsFetched(i) ==
    /\ flight[i].kind = "agents" /\ flight[i].stage \in Done
    /\ token' = IF flight[i].stage = "refused" THEN 0 ELSE token
    /\ Send(i, <<>>)
    /\ UNCHANGED <<serverVars, loginLoading, table, behind, writes>>

\* Slip: the body of a refusal is taken for a list.
UncheckedTokensFetched(i) ==
    /\ flight[i].kind = "list" /\ flight[i].stage \in Done
    /\ table' = IF flight[i].stage = "ok" THEN flight[i].toks ELSE None
    /\ Send(i, <<>>)
    /\ UNCHANGED <<serverVars, token, loginLoading, behind, writes>>

\* The lists sent before this one come too late, and a late one may be old.
TokensFetched(i) ==
    LET r == flight[i]
        waiting == \E j \in DOMAIN flight \ {i} :
                       flight[j].own /\ flight[j].kind \in Write \cup {"list"}
    IN
    /\ r.kind = "list" /\ r.stage \in Done
    /\ IF r.stage = "ok"
       THEN /\ table' = r.toks
            /\ behind' = (r.late \/ (behind /\ waiting))
            /\ flight' = RemoveAt([j \in DOMAIN flight |->
                             [flight[j] EXCEPT !.late = @ \/ (j < i /\ flight[j].kind = "list")]], i)
            /\ UNCHANGED token
       ELSE /\ token' = IF r.stage = "refused" THEN 0 ELSE token
            /\ flight' = RemoveAt(flight, i)
            /\ UNCHANGED <<table, behind>>
    /\ UNCHANGED <<serverVars, loginLoading, writes>>

\* handleAddToken, handleUpdateToken, handleDeleteToken, and what is clicked before
\* them.  A secret of None is an empty one.
SendWrite(req) ==
    /\ token # 0 /\ writes < MaxWrites
    /\ writes' = writes + 1
    /\ Send(0, <<req>>)

\* A row of the tokens table, with its buttons.
RowShown(d) == table[d] # None

AddToken(d, s) ==
    /\ SendWrite(Request("create", token, d, s))
    /\ UNCHANGED <<serverVars, pageVars>>

\* The editor of a row that is shown, and the dialog that asks about it.  (A dialog
\* that outlives its row sends what a second delete of the row sends.)
UpdateToken(d, s) ==
    /\ RowShown(d)
    /\ SendWrite(Request("update", token, d, s))
    /\ UNCHANGED <<serverVars, pageVars>>

DeleteToken(d) ==
    /\ RowShown(d)
    /\ SendWrite(Request("delete", token, d, None))
    /\ UNCHANGED <<serverVars, pageVars>>

\* Slip: only an added token is looked for in the list.
SparingWritten(i) ==
    LET r == flight[i] IN
    /\ r.own /\ r.kind \in Write /\ r.stage \in Done
    /\ Send(i, IF r.stage = "ok" /\ r.kind = "create" THEN <<Get("list", r.session)>> ELSE <<>>)
    /\ UNCHANGED <<serverVars, token, loginLoading, table, behind, writes>>

\* The token of the request is the one its list is fetched with; a refusal, 401
\* included, changes nothing.
Written(i) ==
    LET r == flight[i] IN
    /\ r.own /\ r.kind \in Write /\ r.stage \in Done
    /\ Send(i, IF r.stage = "ok" THEN <<Get("list", r.session)>> ELSE <<>>)
    /\ UNCHANGED <<serverVars, token, loginLoading, table, behind, writes>>

\* The answer is lost: the page goes on as it was.  (To lose the request on its way
\* there is, for both sides, no more than a click that is not made.)
Lose(i) ==
    LET r == flight[i] IN
    /\ r.own /\ r.stage \in Done \cup {"lost"}
    /\ loginLoading' = (loginLoading /\ r.kind # "login")
    /\ IF r.kind \in Write \cup {"list"}
       THEN behind' = TRUE /\ flight' = RemoveAt(Late(flight), i)
       ELSE UNCHANGED behind /\ flight' = RemoveAt(flight, i)
    /\ UNCHANGED <<serverVars, token, table, writes>>

------------------------------------------------------------------------------
(* Other pages, in tabs and browsers of their own.  They have logins of     *)
(* their own; one that the server has forgotten is refused, which changes   *)
(* nothing.                                                                 *)

\* A list that was read before another page changed a token comes too late.
Overtaken(r) == r.kind = "list" /\ r.stage # "sent"

\* Up to the end of the critical section, where the change is made.
OthersWrite(d, s) ==
    LET r == [Request(IF s = None THEN "delete" ELSE "create", 0, d, s) EXCEPT !.own = FALSE,
                                                                              !.stage = "applied"]
    IN
    /\ up /\ hasPassword /\ writes < MaxWrites /\ Len(flight) < MaxFlight
    /\ ~Rejected(r)
    /\ tokens' = [tokens EXCEPT ![d] = s]
    /\ overlapped' = (overlapped \/ InSave(0))
    /\ behind' = TRUE
    /\ writes' = writes + 1
    /\ flight' = Append([j \in DOMAIN flight |->
                            [flight[j] EXCEPT !.late = @ \/ Overtaken(flight[j])]], r)
    /\ UNCHANGED <<sessions, logins, hasPassword, up, restarts, file, cutShort, unsaved, token,
                   loginLoading, table>>

OthersAnswered(i) ==
    /\ ~flight[i].own /\ flight[i].stage \in Done \cup {"lost"}
    /\ Send(i, <<>>)
    /\ UNCHANGED <<serverVars, pageVars, writes>>

------------------------------------------------------------------------------
Serve(i) == \/ ServeLogin(i) \/ Refuse(i) \/ ServeGet(i) \/ Apply(i) \/ CopyTokens(i)
            \/ ReadConfig(i) \/ Truncate(i) \/ WriteConfig(i)

Answer(i) == LoggedIn(i) \/ AgentsFetched(i) \/ TokensFetched(i) \/ Written(i)

Click == \/ HandleLogin \/ Logout \/ FetchTokens
         \/ \E d \in Devices, s \in Secrets \cup {None} : AddToken(d, s) \/ UpdateToken(d, s)
         \/ \E d \in Devices : DeleteToken(d)

Next == \/ Click \/ PollAgents \/ Restart
        \/ \E i \in DOMAIN flight : Serve(i) \/ Answer(i) \/ Lose(i) \/ OthersAnswered(i)
        \/ \E d \in Devices, s \in Secrets \cup {None} : OthersWrite(d, s)
        \/ \E s \in sessions : Expire(s)

Spec == Init /\ [][Next]_vars

\* The interval of the page runs; the server handles what arrives; not every
\* request is lost on the way there, nor every answer on the way back.
FairSpec ==
    /\ Spec
    /\ WF_vars(PollAgents)
    /\ SF_vars(\E i \in DOMAIN flight : Serve(i))
    /\ SF_vars(\E i \in DOMAIN flight : Answer(i))
    /\ WF_vars(\E i \in DOMAIN flight : OthersAnswered(i) \/ (flight[i].stage = "lost" /\ Lose(i)))

------------------------------------------------------------------------------
(* Properties.                                                              *)

\* Types of the server's and the page's state.
TypeOK ==
    /\ {tokens, table, file.toks} \subseteq [Devices -> Secrets \cup {None}]
    /\ {hasPassword, up, loginLoading, file.rest, overlapped, cutShort, unsaved, behind}
          \subseteq BOOLEAN
    /\ sessions \subseteq 1 .. logins /\ logins \in 0 .. MaxLogins /\ restarts \in 0 .. MaxRestarts
    /\ token \in 0 .. logins /\ writes \in 0 .. MaxWrites
    /\ Len(flight) <= MaxFlight
    /\ \A i \in DOMAIN flight :
           /\ flight[i].kind \in {"login", "agents", "list"} \cup Write
           /\ flight[i].stage \in {"sent", "lost"} \cup Saving \cup Done
           /\ flight[i].session \in 0 .. logins

Settled == \A i \in DOMAIN flight : flight[i].stage \notin Saving

\* As long as no two saves ran at once and no write failed or was cut by a crash,
\* the file is whole whenever no save is under way, whatever else fails, and
\* agrees with the map unless the last save could not read or open it: so a
\* crash and a restart lose no change that was acknowledged, except the ones
\* whose save failed, which the handlers acknowledge all the same.
FileFollowsTheMap ==
    ~overlapped /\ ~cutShort /\ Settled => file.rest /\ (unsaved \/ file.toks = tokens)

\* A page that is logged in and waits for nothing shows the tokens the server has,
\* across logins, crashes and refusals, if no answer it needed was lost or
\* overtaken and no other page has changed a token since its list was read
\* (AdminPage fetches agents every 5 s, but the tokens only on its own account).
QuietPageShowsTheTable ==
    (/\ token # 0 /\ ~behind
     /\ \A i \in DOMAIN flight : flight[i].own => flight[i].kind \notin Write \cup {"list"})
    => table = tokens

\* The request whose answer the page takes in this step: it goes, the others stay in
\* their order, and what is sent upon it comes after them.
Taken(i) == SubSeq(flight', 1, Len(flight) - 1) = RemoveAt(flight, i)

\* A login the server knows is dropped by the user or, which the code does not
\* prevent, by the refusal of a request of an earlier login (or by the answer to a
\* later login); by nothing else, and never by an answer to a request of its own.
KnownLoginStays ==
    [][flight' # flight /\ token' # token /\ token \in sessions
         => \E i \in DOMAIN flight : /\ Taken(i) /\ flight[i].session \notin {0, token}
                                     /\ flight[i].stage = "refused" \/ flight[i].kind = "login"]_vars

\* A page whose login the server does not know any more, after a restart or a day,
\* leaves it without being asked anything, as long as the server runs.
DeadSessionIsNoticed ==
    \A n \in 1 .. MaxLogins :
        (token = n /\ n \notin sessions /\ up) ~> (token # n \/ ~up)

\* saveTokens "rewrites only the `tokens:` block in the config file, preserving all
\* other content": what it writes has the rest of the file.
OtherContentIsPreserved == Settled /\ ~cutShort => file.rest
==============================================================================
