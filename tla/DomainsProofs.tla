---------------------------- MODULE DomainsProofs ----------------------------
(***************************************************************************)
(* Proof that channels opened without a token of the caller's own never    *)
(* share a circuit, for every set of endpoints and any number of tokens,   *)
(* channels, dials, drops and reconnects.                                  *)
(*                                                                         *)
(* Sharing a circuit is not ruled out step by step: it follows from two    *)
(* facts about tokens.  A channel is on a circuit that was built for its   *)
(* token (OnItsCircuit), so two channels on one circuit have one token;    *)
(* and a token that two channels have is one the caller minted             *)
(* (SharedIsGiven), because a fresh one is above every token in use        *)
(* (TokensBelowMint).                                                      *)
(***************************************************************************)
EXTENDS Domains, SequenceTheorems, TLAPS

Channel == [token : Nat, uri : Uris, circuit : Nat]

DomainTypeOK ==
  /\ minted \in Nat /\ given \subseteq 1..minted
  /\ channels \in Seq(Channel) /\ circuits \in Seq(Nat)

TokensBelowMint == \A c \in DOMAIN channels : channels[c].token <= minted

SharedIsGiven ==
  \A a, b \in DOMAIN channels :
    (a # b /\ channels[a].token = channels[b].token) => channels[a].token \in given

OnItsCircuit ==
  \A c \in DOMAIN channels :
    channels[c].circuit # 0 =>
      /\ channels[c].circuit \in DOMAIN circuits
      /\ circuits[channels[c].circuit] = channels[c].token

DomainInv == DomainTypeOK /\ TokensBelowMint /\ SharedIsGiven /\ OnItsCircuit

\* Opening a channel on a token the caller minted, or on one above every token
\* in use, keeps the invariant (channel, channel_with_isolation).
LEMMA OpenKeepsInv ==
  ASSUME DomainInv, NEW token \in Nat \ {0}, NEW uri \in Uris,
         token \in given \/ token = minted + 1,
         channels' = Append(channels, Opened(token, uri)),
         minted' \in Nat, token <= minted', minted <= minted',
         UNCHANGED <<given, circuits>>
  PROVE  DomainInv'
<1> DEFINE ch == Opened(token, uri)
<1>1. ch \in Channel /\ ch.token = token /\ ch.circuit = 0
  BY DEF Opened, Channel
<1>2. /\ channels' \in Seq(Channel)
      /\ Len(channels') = Len(channels) + 1
      /\ DOMAIN channels = 1..Len(channels) /\ DOMAIN channels' = 1..(Len(channels) + 1)
      /\ \A c \in DOMAIN channels : channels'[c] = channels[c]
      /\ channels'[Len(channels) + 1] = ch
      /\ Len(channels) \in Nat
  BY <1>1, AppendProperties, LenProperties DEF DomainInv, DomainTypeOK
<1> HIDE DEF ch
<1>3. \A c \in DOMAIN channels' : c \in DOMAIN channels \/ channels'[c] = ch
  BY <1>2
<1>4. \A c \in DOMAIN channels : channels[c].token \in Nat /\ channels[c].token <= minted
  <2>1. \A c \in DOMAIN channels : channels[c] \in Channel
    BY <1>2, ElementOfSeq DEF DomainInv, DomainTypeOK
  <2> QED
    BY <2>1 DEF Channel, DomainInv, TokensBelowMint
<1>5. DomainTypeOK'
  BY <1>2 DEF DomainInv, DomainTypeOK
<1>6. TokensBelowMint'
  BY <1>1, <1>2, <1>3, <1>4 DEF DomainInv, DomainTypeOK, TokensBelowMint
<1>7. SharedIsGiven'
  <2> SUFFICES ASSUME NEW a \in DOMAIN channels', NEW b \in DOMAIN channels',
                      a # b, channels'[a].token = channels'[b].token
               PROVE  channels'[a].token \in given
    BY DEF SharedIsGiven
  <2>1. CASE a \in DOMAIN channels /\ b \in DOMAIN channels
    BY <1>2, <2>1 DEF DomainInv, SharedIsGiven
  <2>2. CASE token \in given
    BY <1>1, <1>2, <1>3, <2>1, <2>2
  <2>3. CASE token = minted + 1 /\ ~(a \in DOMAIN channels /\ b \in DOMAIN channels)
    <3>1. \A c \in DOMAIN channels : channels'[c].token # token
      BY <1>2, <1>4, <2>3 DEF DomainInv, DomainTypeOK
    <3>2. a = Len(channels) + 1 \/ b = Len(channels) + 1
      BY <1>2, <2>3
    <3> QED
      BY <1>1, <1>2, <3>1, <3>2
  <2> QED
    BY <2>1, <2>2, <2>3
<1>8. OnItsCircuit'
  BY <1>1, <1>2, <1>3 DEF DomainInv, OnItsCircuit
<1> QED
  BY <1>5, <1>6, <1>7, <1>8 DEF DomainInv

\* The connector keeps the invariant: the circuit it dials out on is one built
\* for the channel's own token.
LEMMA DialKeepsInv ==
  ASSUME DomainInv, NEW c \in DOMAIN channels, Dial(c)
  PROVE  DomainInv'
<1> USE DEF DomainInv, DomainTypeOK
<1>1. PICK i \in 1..MaxCircuits :
        /\ i <= Len(circuits) + 1
        /\ circuits' = IF i > Len(circuits) THEN Append(circuits, channels[c].token)
                       ELSE circuits
        /\ circuits'[i] = channels[c].token
        /\ channels' = [channels EXCEPT ![c].circuit = i]
  BY DEF Dial
<1>2. \A k \in DOMAIN channels : channels[k] \in Channel
  BY ElementOfSeq, LenProperties
<1>3. /\ DOMAIN circuits \subseteq DOMAIN circuits'
      /\ \A k \in DOMAIN circuits : circuits'[k] = circuits[k]
      /\ circuits' \in Seq(Nat) /\ i \in DOMAIN circuits' /\ i \in Nat
  <2>1. channels[c].token \in Nat /\ i \in Nat /\ i >= 1
    BY <1>2, DomainAssumption DEF Channel
  <2>2. DOMAIN circuits = 1..Len(circuits) /\ Len(circuits) \in Nat
    BY LenProperties
  <2>3. CASE i > Len(circuits)
    BY <1>1, <2>1, <2>2, <2>3, AppendProperties
  <2>4. CASE ~(i > Len(circuits))
    BY <1>1, <2>1, <2>2, <2>4
  <2> QED
    BY <2>3, <2>4
<1>4. /\ DOMAIN channels' = DOMAIN channels
      /\ \A k \in DOMAIN channels : k # c => channels'[k] = channels[k]
      /\ channels'[c].token = channels[c].token /\ channels'[c].circuit = i
  BY <1>1, <1>2 DEF Channel
<1>5. channels' \in Seq(Channel)
  <2>1. [channels[c] EXCEPT !.circuit = i] \in Channel
    BY <1>2, <1>3 DEF Channel
  <2> QED
    BY <1>1, <2>1, ExceptSeq, LenProperties
<1>6. UNCHANGED <<minted, given>>
  BY DEF Dial
<1>7. DomainTypeOK' /\ TokensBelowMint' /\ SharedIsGiven'
  BY <1>3, <1>4, <1>5, <1>6 DEF TokensBelowMint, SharedIsGiven
<1>8. OnItsCircuit'
  BY <1>1, <1>3, <1>4 DEF OnItsCircuit
<1> QED
  BY <1>7, <1>8

\* A dropped connection keeps the invariant.
LEMMA DropKeepsInv ==
  ASSUME DomainInv, NEW c \in DOMAIN channels, Drop(c)
  PROVE  DomainInv'
<1> USE DEF DomainInv, DomainTypeOK
<1>1. \A k \in DOMAIN channels : channels[k] \in Channel
  BY ElementOfSeq, LenProperties
<1>2. /\ DOMAIN channels' = DOMAIN channels
      /\ \A k \in DOMAIN channels : k # c => channels'[k] = channels[k]
      /\ channels'[c].token = channels[c].token /\ channels'[c].circuit = 0
  BY <1>1 DEF Drop, Channel
<1>3. channels' \in Seq(Channel)
  <2>1. [channels[c] EXCEPT !.circuit = 0] \in Channel
    BY <1>1 DEF Channel
  <2> QED
    BY <2>1, ExceptSeq, LenProperties DEF Drop
<1>4. UNCHANGED <<minted, given, circuits>>
  BY DEF Drop
<1> QED
  BY <1>2, <1>3, <1>4 DEF TokensBelowMint, SharedIsGiven, OnItsCircuit

\* The invariant holds in every state.
LEMMA DomainInvariant == DomainSpec => []DomainInv
<1>1. DomainInit => DomainInv
  BY DEF DomainInit, DomainInv, DomainTypeOK, TokensBelowMint, SharedIsGiven, OnItsCircuit
<1>2. ASSUME DomainInv, [DomainNext]_domainVars PROVE DomainInv'
  <2>1. CASE MintToken
    <3>1. DomainTypeOK' /\ SharedIsGiven' /\ OnItsCircuit'
      BY <1>2, <2>1
      DEF MintToken, DomainInv, DomainTypeOK, SharedIsGiven, OnItsCircuit
    <3>2. \A c \in DOMAIN channels : channels[c].token \in Nat
      <4>1. \A c \in DOMAIN channels : channels[c] \in Channel
        BY <1>2, ElementOfSeq, LenProperties DEF DomainInv, DomainTypeOK
      <4> QED
        BY <4>1 DEF Channel
    <3>3. TokensBelowMint'
      BY <1>2, <2>1, <3>2 DEF MintToken, DomainInv, DomainTypeOK, TokensBelowMint
    <3> QED
      BY <3>1, <3>3 DEF DomainInv
  <2>2. CASE \E uri \in Uris : FreshChannel(uri)
    <3>1. PICK uri \in Uris : FreshChannel(uri)
      BY <2>2
    <3> QED
      BY <1>2, <3>1, OpenKeepsInv DEF FreshChannel, DomainInv, DomainTypeOK
  <2>3. CASE \E uri \in Uris : \E token \in given : ChannelWithIsolation(token, uri)
    <3>1. PICK uri \in Uris, token \in given : ChannelWithIsolation(token, uri)
      BY <2>3
    <3> QED
      BY <1>2, <3>1, OpenKeepsInv DEF ChannelWithIsolation, DomainInv, DomainTypeOK
  <2>4. CASE \E c \in DOMAIN channels : Dial(c) \/ Drop(c)
    BY <1>2, <2>4, DialKeepsInv, DropKeepsInv
  <2>5. CASE UNCHANGED domainVars
    BY <1>2, <2>5
    DEF domainVars, DomainInv, DomainTypeOK, TokensBelowMint, SharedIsGiven, OnItsCircuit
  <2> QED
    BY <1>2, <2>1, <2>2, <2>3, <2>4, <2>5 DEF DomainNext
<1> QED
  BY <1>1, <1>2, PTL DEF DomainSpec

\* Channels made without a token never share a circuit with anything: two that
\* do have one token, and the caller minted it for the purpose (channel,
\* channel_with_isolation and the connector of crates/core and transport-tor).
THEOREM CircuitsStayApartAlways == DomainSpec => []CircuitsStayApart
<1>1. DomainInv => CircuitsStayApart
  BY DEF DomainInv, SharedIsGiven, OnItsCircuit, CircuitsStayApart
<1> QED
  BY <1>1, DomainInvariant, PTL
=============================================================================
