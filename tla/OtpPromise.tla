----------------------------- MODULE OtpPromise -----------------------------
(***************************************************************************)
(* What the one-time passwords promise to the flows that use them, with no *)
(* cache, queue, provider or program counter: a code is asked for on one   *)
(* channel with one intent; it reaches the owner of that channel only; an  *)
(* attempt opens on a code while the code is not spent; and an open        *)
(* attempt gives one token at most, for a channel of the owner the code    *)
(* reached and for an intent asked of that owner.  OtpChannel implements   *)
(* it.                                                                     *)
(***************************************************************************)
CONSTANTS Channels, Codes, Intents, Requests, None,
          Owner    \* the mailbox or phone that a channel is a name of

VARIABLES
  purpose,  \* the channel and intent each code was asked for
  inbox,    \* codes that reached an owner
  open,     \* the code each attempt is working on
  spent,    \* codes that no attempt may open any more
  tokens,   \* tokens given and not yet lapsed
  granted   \* tokens a route has taken

vars == <<purpose, inbox, open, spent, tokens, granted>>

Init ==
  /\ purpose = [c \in Codes |-> None]
  /\ inbox   = [ch \in Channels |-> {}]
  /\ open    = [r \in Requests |-> None]
  /\ spent   = {}
  /\ tokens  = {}
  /\ granted = {}

Ask(c, ch, i) ==
  /\ purpose[c] = None
  /\ purpose' = [purpose EXCEPT ![c] = [ch |-> ch, intent |-> i]]
  /\ UNCHANGED <<inbox, open, spent, tokens, granted>>

Deliver(c) ==
  /\ purpose[c] # None
  /\ inbox' = [inbox EXCEPT ![Owner[purpose[c].ch]] = @ \cup {c}]
  /\ UNCHANGED <<purpose, open, spent, tokens, granted>>

Open(r, c) ==
  /\ open[r] = None
  /\ purpose[c] # None
  /\ c \notin spent
  /\ open' = [open EXCEPT ![r] = c]
  /\ UNCHANGED <<purpose, inbox, spent, tokens, granted>>

Close(r) ==
  /\ open' = [open EXCEPT ![r] = None]
  /\ UNCHANGED <<purpose, inbox, spent, tokens, granted>>

Spend(r) ==
  /\ open[r] # None
  /\ spent' = spent \cup {open[r]}
  /\ UNCHANGED <<purpose, inbox, open, tokens, granted>>

Mint(r, ch, i) ==
  /\ open[r] # None
  /\ open[r] \in inbox[Owner[ch]]
  /\ \E c \in Codes : /\ purpose[c] # None
                      /\ Owner[purpose[c].ch] = Owner[ch] /\ purpose[c].intent = i
  /\ tokens' = tokens \cup {[ch |-> ch, intent |-> i, code |-> open[r]]}
  /\ open' = [open EXCEPT ![r] = None]
  /\ UNCHANGED <<purpose, inbox, spent, granted>>

Grant(t) ==
  /\ granted' = granted \cup {t}
  /\ UNCHANGED <<purpose, inbox, open, spent, tokens>>

Lapse(t) ==
  /\ tokens' = tokens \ {t}
  /\ UNCHANGED <<purpose, inbox, open, spent, granted>>

Next ==
  \/ \E c \in Codes, ch \in Channels, i \in Intents : Ask(c, ch, i)
  \/ \E c \in Codes : Deliver(c)
  \/ \E r \in Requests, c \in Codes : Open(r, c)
  \/ \E r \in Requests : Close(r) \/ Spend(r)
  \/ \E r \in Requests, ch \in Channels, i \in Intents : Mint(r, ch, i)
  \/ \E t \in tokens : Grant(t) \/ Lapse(t)

Spec == Init /\ [][Next]_vars
=============================================================================
