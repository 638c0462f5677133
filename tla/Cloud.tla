------------------------------- MODULE Cloud -------------------------------
(* The Xiaomi account client (crates/xiaomi/src/cloud.rs), as the validation  *)
(* tool and the stream worker drive it: the password login with its captcha   *)
(* and two-step branches, the token login, the redirect chain that ends       *)
(* either, and the signed request. The account service is external: it may    *)
(* ask for a captcha or a verification at every turn, any exchange may fail,  *)
(* and any answer may bring credentials, blank ones, or none: the client      *)
(* checks neither the status of a redirect's response nor what it brought.    *)
EXTENDS Integers, Sequences

CONSTANTS MaxRedirects,   \* GETs of the redirect chain (10 in the code)
          MaxChain,       \* longest chain the service sends (bound)
          Answers         \* what its responses may bring (bound)

Credentials == {"ssecurity", "token", "cookies"}

ASSUME CloudAssumption ==
    /\ MaxRedirects \in Nat \ {0} /\ MaxChain \in Nat
    /\ Answers \subseteq [gives : SUBSET Credentials, blanks : SUBSET Credentials]

VARIABLES
    auth,     \* the scratch map of a multi-step login: which keys are set
    at,       \* the call in progress
    step,     \* what the last call returned
    creds,    \* those of ssecurity, pass_token and cookies that are not empty
    chain,    \* answers of the login, those read, service_token set by them
    bare      \* the captcha image came without its cookie (observation)

cloudvars == <<auth, at, step, creds, chain, bare>>

NoAuth  == [user |-> FALSE, code |-> FALSE, ick |-> FALSE, flag |-> FALSE]
NoChain == [gave |-> <<>>, pos |-> 0, service |-> FALSE]

CloudInit ==
    /\ auth = NoAuth /\ at = "none" /\ step = "none"
    /\ creds = {} /\ chain = NoChain /\ bare = FALSE

\* Cloud::new: nothing is held and no login is under way.
CloudNew ==
    /\ auth' = NoAuth /\ at' = "none" /\ step' = "none"
    /\ creds' = {} /\ chain' = NoChain /\ bare' = FALSE

\* A failed exchange, or an ssecurity that is not base64, returns its error;
\* what was stored before it stays.
HttpError ==
    /\ at # "none" /\ at' = "none" /\ step' = "Err"
    /\ UNCHANGED <<auth, creds, chain, bare>>

\* login, entered directly: the service page is asked for its form.
Login ==
    /\ at = "none" /\ step = "none" /\ at' = "login"
    /\ UNCHANGED <<auth, step, creds, chain, bare>>

\* login_with_captcha: refused unless a captcha is pending; goes on with the
\* ticket once a verification has begun, else with the password again.
LoginWithCaptcha ==
    /\ at = "none" /\ step = "Captcha"
    /\ IF auth.ick
       THEN /\ auth' = [auth EXCEPT !.code = TRUE]
            /\ at' = IF auth.flag THEN "ticket" ELSE "login"
            /\ UNCHANGED step
       ELSE step' = "Err" /\ UNCHANGED <<auth, at>>
    /\ UNCHANGED <<creds, chain, bare>>

\* login_with_verify: refused unless a verification is pending.
LoginWithVerify ==
    /\ at = "none" /\ step = "Verify"
    /\ IF auth.flag THEN at' = "verify" /\ UNCHANGED step
       ELSE step' = "Err" /\ UNCHANGED at
    /\ UNCHANGED <<auth, creds, chain, bare>>

\* What the answer to a login may hold, and the chains of responses after it.
FirstAnswers == {[gives |-> g, blanks |-> {}] : g \in SUBSET {"ssecurity", "token"}}
Chains == UNION {[1..h -> Answers] : h \in 1..MaxChain}

\* finish_auth begins: the answer a has been read, the chain c lies ahead.
Follow(a, c) ==
    /\ at' = "follow" /\ chain' = [gave |-> <<a>> \o c, pos |-> 1, service |-> FALSE]
    /\ UNCHANGED step

\* Both logins store ssecurity and the token, empty when the answer has none.
Store(a) == creds' = (creds \cap {"cookies"}) \cup a.gives

\* login, the answer to the password: the scratch map starts afresh, then a
\* captcha, a verification, nothing usable, or a location to follow.
Answered(a, c) ==
    \/ /\ at' \in {"captcha", "start"} /\ auth' = [NoAuth EXCEPT !.user = TRUE]
       /\ UNCHANGED <<step, creds, chain>>
    \/ /\ auth' = [NoAuth EXCEPT !.user = TRUE] /\ at' = "none" /\ step' = "Err"
       /\ UNCHANGED <<creds, chain>>
    \/ auth' = NoAuth /\ Store(a) /\ Follow(a, c)

LoginAnswered ==
    /\ at = "login" /\ \E a \in FirstAnswers, c \in Chains : Answered(a, c)
    /\ UNCHANGED bare

\* get_captcha: the image for the caller, its cookie, if there is one, for the
\* next call.
GetCaptcha ==
    /\ at = "captcha" /\ at' = "none" /\ step' = "Captcha"
    /\ bare' \in BOOLEAN /\ auth' = [auth EXCEPT !.ick = ~bare']
    /\ UNCHANGED <<creds, chain>>

\* auth_start: the verification method and its session, then the ticket.
AuthStart ==
    /\ at = "start" /\ at' = "ticket"
    /\ auth' = [auth EXCEPT !.flag = TRUE]
    /\ UNCHANGED <<step, creds, chain, bare>>

\* send_ticket: a ticket is sent, or a captcha asked for first, or refused.
SendTicket ==
    /\ at = "ticket"
    /\ \/ at' = "none" /\ step' \in {"Verify", "Err"}
       \/ at' = "captcha" /\ UNCHANGED step
    /\ UNCHANGED <<auth, creds, chain, bare>>

\* The answer to the ticket: a location, or an error.
Verified ==
    /\ at = "verify"
    /\ \/ \E c \in Chains : Follow([gives |-> {}, blanks |-> {}], c)
       \/ at' = "none" /\ step' = "Err" /\ UNCHANGED chain
    /\ UNCHANGED <<auth, creds, bare>>

\* login_with_token, once per client.
LoginWithToken ==
    /\ at = "none" /\ step = "none" /\ at' = "token"
    /\ UNCHANGED <<auth, step, creds, chain, bare>>

\* ssecurity and token are stored before the location is looked at.
TokenAnswered ==
    /\ at = "token"
    /\ \E a \in FirstAnswers :
          /\ Store(a)
          /\ \/ \E c \in Chains : Follow(a, c)
             \/ at' = "none" /\ step' = "Err" /\ UNCHANGED chain
    /\ UNCHANGED <<auth, bare>>

\* What a response leaves of the credentials, of which the cookie is kept aside.
Read(r) == (creds \ (r.blanks \ {"cookies"})) \cup (r.gives \ {"cookies"})

ServiceToken(r) == "cookies" \in r.gives \/ (chain.service /\ "cookies" \notin r.blanks)

\* Mutant: the loop makes one GET too few.
M_FinishAuth ==
    /\ at = "follow"
    /\ LET k == chain.pos + 1  r == chain.gave[k] IN
       IF k < Len(chain.gave) /\ k < MaxRedirects
       THEN /\ chain' = [chain EXCEPT !.pos = k, !.service = ServiceToken(r)]
            /\ creds' = Read(r) /\ UNCHANGED <<at, step>>
       ELSE /\ chain' = [chain EXCEPT !.pos = k, !.service = ServiceToken(r)]
            /\ creds' = Read(r) \cup (IF ServiceToken(r) THEN {"cookies"} ELSE {})
            /\ at' = "none" /\ step' = "Done"
    /\ UNCHANGED <<auth, bare>>

\* finish_auth: one GET of the chain, whatever its status and whatever it
\* brings. A redirect is followed while there are GETs left; any other response,
\* the last or one too many, ends the login, which is Done: the cookies are made
\* of what the chain set.
FinishAuth ==
    /\ at = "follow"
    /\ LET k == chain.pos + 1  r == chain.gave[k]
           again == k < Len(chain.gave) /\ k <= MaxRedirects IN
       /\ chain' = [chain EXCEPT !.pos = k, !.service = ServiceToken(r)]
       /\ IF again THEN creds' = Read(r) /\ UNCHANGED <<at, step>>
          ELSE /\ creds' = (Read(r) \ {"cookies"})
                              \cup (IF ServiceToken(r) THEN {"cookies"} ELSE {})
               /\ at' = "none" /\ step' = "Done"
    /\ UNCHANGED <<auth, bare>>

\* request: the signed call may succeed for a client that holds what signs it.
RequestOk == {"ssecurity", "cookies"} \subseteq creds

\* What goes on once a call has begun.
CloudStep ==
    \/ HttpError \/ LoginAnswered \/ GetCaptcha \/ AuthStart \/ SendTicket
    \/ Verified \/ TokenAnswered \/ FinishAuth

\* A credential was given by one of the first n answers and not blanked since.
Given(c, n) ==
    \E i \in 1..n : /\ c \in chain.gave[i].gives
                    /\ \A j \in (i + 1)..n : c \notin chain.gave[j].blanks

\* Each step a login returns can be taken, and Done means what the service gave:
\* a captcha can be answered, with the verification or the password it belongs
\* to, unless its image came without a cookie; a verification has its method;
\* and a client that reports Done holds exactly the credentials that the answer
\* and the whole redirect chain, its last response included, gave and did not
\* blank later, unless the chain outran the bound. (The code checks neither
\* that the service gave them nor a response's status: Done may hold nothing.)
LoginResumes == at = "none" =>
    /\ step = "Captcha" => (auth.ick \/ bare) /\ (auth.user \/ auth.flag)
    /\ step = "Verify" => auth.flag
    /\ step = "Done" /\ Len(chain.gave) <= MaxRedirects + 1
          => creds = {c \in Credentials : Given(c, Len(chain.gave))}

=============================================================================
