------------------------------ MODULE Domains ------------------------------
(***************************************************************************)
(* Unlinkability domains: how channels and isolation tokens are made       *)
(* (crates/core transport, transport-tor) and which circuit a channel      *)
(* dials out on, at first use and at every reconnect.                      *)
(*                                                                         *)
(* A token is a number, minted once.  Tor puts two streams on one circuit  *)
(* only when their tokens are equal; that is external.                     *)
(*                                                                         *)
(* An operator whose name starts with Bug is a slip one could make in the  *)
(* one after it; no specification uses it.                                 *)
(***************************************************************************)
EXTENDS Naturals, Sequences, FiniteSets

CONSTANTS
    Uris,           \* the endpoints that may be named
    MaxTokens,      \* tokens are minted up to this many
    MaxCircuits     \* circuits are built up to this many

ASSUME DomainAssumption == MaxTokens \in Nat /\ MaxCircuits \in Nat

VARIABLES
    minted,     \* tokens minted so far: the next one is minted + 1
    given,      \* the tokens the caller minted itself
    channels,   \* each channel's token and uri, and the circuit it is on (0: none)
    circuits    \* the token each circuit was built for

domainVars == <<minted, given, channels, circuits>>

DomainInit == minted = 0 /\ given = {} /\ channels = <<>> /\ circuits = <<>>

\* What a connector dials: the host, and the port or its scheme's default.
NoPort == 0
DefaultPort(scheme) == CASE scheme = "https" -> 443 [] scheme = "http" -> 80 [] OTHER -> NoPort
Port(uri) == IF uri.port # NoPort THEN uri.port ELSE DefaultPort(uri.scheme)
Dials(uri) == uri.host # "" /\ Port(uri) # NoPort

\* The caller mints a token of its own, to group channels on purpose.
MintToken ==
    /\ minted < MaxTokens
    /\ minted' = minted + 1 /\ given' = given \cup {minted + 1}
    /\ UNCHANGED <<channels, circuits>>

Opened(token, uri) == [token |-> token, uri |-> uri, circuit |-> 0]

\* channel and channel_lazy: a fresh token for each channel.
BugFreshChannel(uri) ==
    /\ minted < MaxTokens
    /\ minted' = (IF minted = 0 THEN 1 ELSE minted)
    /\ channels' = Append(channels, Opened(minted', uri))
    /\ UNCHANGED <<given, circuits>>
FreshChannel(uri) ==
    /\ minted < MaxTokens
    /\ minted' = minted + 1
    /\ channels' = Append(channels, Opened(minted + 1, uri))
    /\ UNCHANGED <<given, circuits>>

\* channel_with_isolation and its lazy form.
ChannelWithIsolation(token, uri) ==
    /\ token \in given /\ Len(channels) < MaxTokens
    /\ channels' = Append(channels, Opened(token, uri))
    /\ UNCHANGED <<minted, given, circuits>>

\* The connector, called at first use and again after a dropped connection: a
\* circuit of its token that stands, or a new one for it.
BugDial(c) ==
    /\ Dials(channels[c].uri)
    /\ \E i \in 1..MaxCircuits :
          /\ i <= Len(circuits) + 1
          /\ circuits' = IF i > Len(circuits) THEN Append(circuits, minted) ELSE circuits
          /\ circuits'[i] \in {channels[c].token, minted}
          /\ channels' = [channels EXCEPT ![c].circuit = i]
    /\ UNCHANGED <<minted, given>>
Dial(c) ==
    /\ channels[c].circuit = 0 /\ Dials(channels[c].uri)
    /\ \E i \in 1..MaxCircuits :
          /\ i <= Len(circuits) + 1
          /\ circuits' = IF i > Len(circuits) THEN Append(circuits, channels[c].token)
                         ELSE circuits
          /\ circuits'[i] = channels[c].token
          /\ channels' = [channels EXCEPT ![c].circuit = i]
    /\ UNCHANGED <<minted, given>>

\* The connection drops, or a lazy channel is still to be used.
Drop(c) ==
    /\ channels[c].circuit # 0
    /\ channels' = [channels EXCEPT ![c].circuit = 0]
    /\ UNCHANGED <<minted, given, circuits>>

DomainNext ==
    \/ MintToken
    \/ \E uri \in Uris : FreshChannel(uri) \/ \E token \in given : ChannelWithIsolation(token, uri)
    \/ \E c \in DOMAIN channels : Dial(c) \/ Drop(c)

DomainSpec == DomainInit /\ [][DomainNext]_domainVars

(***************************************************************************)
(* Properties.                                                             *)
(***************************************************************************)
\* Two channels on one circuit were built from one token that the caller minted
\* for the purpose: channels made without a token never share a circuit with
\* anything, over every dial, drop and reconnect ("a reconnect must land in the
\* channel's own domain, not a fresh one and never a shared one").
CircuitsStayApart ==
    \A a, b \in DOMAIN channels :
        (a # b /\ channels[a].circuit # 0 /\ channels[a].circuit = channels[b].circuit) =>
            channels[a].token = channels[b].token /\ channels[a].token \in given
============================================================================
