# A TLA+ verification project for bzrtp

bzrtp is a ZRTP engine (RFC 6189): two endpoints exchange packets on the media
path, agree on a key, and hand SRTP keys to their clients. It is a library without
threads: the client drives each channel by calling `bzrtp_iterate` (time) and
`bzrtp_processMessage` (packets). What makes it hard is the pair: two engines that
settle their roles independently, over a network that loses, duplicates and reorders
packets, with retransmission on one side only, and with state (keys, packets kept for
comparison, retained secrets in a cache) that outlives the step that created it.

## 1. Inventory

| Part | Source | State | Operations | Interacts with |
| --- | --- | --- | --- | --- |
| Channel state machine | `stateMachine.c` 52-1495, 2032-2843 | `stateMachine`, `role`, timer, sequence numbers, kept packets, s0 and derived keys | one function per state, called with INIT, MESSAGE and TIMER events | peer (packets), client (callbacks), cache |
| GoClear states | `stateMachine.c` 1497-2020 | `isSecure`, `isClear`, key material of all channels | GoClear, ClearACK, back to secure | all channels of the context |
| Entry points | `bzrtp.c` | context, up to 5 channels | `startChannelEngine`, `iterate`, `processMessage`, `resetRetransmissionTimer`, `setPeerHelloHash`, `addChannel`, `SASVerified`, `exportKey`, `sendGoClear`... | state machine |
| Timer | `typedef.h` 61-76, `bzrtp.c` 465-497 | status, firing time, `firingCount` (uint8_t), step | armed, re-armed and stopped by the states | `bzrtp_iterate` |
| Packet parser | `packetParser.c` 95-845 | last peer sequence number, fragments being collected | `packetCheck`, `packetParser` | state machine |
| Packet builder | `packetParser.c` 848-1652 | own message sequence number | `createZrtpPacket`, `packetBuild` | state machine |
| Retained secrets | `stateMachine.c` 480-545, 768-843, 2205-2252, 2757-2843; `bzrtp.c` 607-637 | rs1, rs2, the verified flag (pvs), mismatch flag | matching, rotation, SAS verified or reset | ZID cache |
| ZID cache | `zidCache.c` | an sqlite database | read and write by ZID and column | retained secrets |
| Algorithm agreement | `cryptoUtils.cc` 39-226, 432-1105; `stateMachine.c` 2032-2049, 2150-2220 | the supported lists of a context, the chosen algorithms of a channel | `setSupportedCryptoTypes`, mandatory types, `cryptoAlgoAgreement`, `selectCommonAlgo` | Hello and Commit handling |
| Crypto, SAS rendering, PGP words | `cryptoUtils.cc`, `pgpwords.c` | none | wrappers and tables | |

What is hard in it, and where, is the `hazards` list of `PROJECT.json`: crossing Commits,
responders without a timer, keys handed over in two parts, late and repeated
packets after keys were destroyed, timer counts at their limits, sessions restarted
with leftovers, caches updated at different moments, fragments of one message that mix with those of
the next, and requests for clear mode that cross on different channels.

## 2. Modules

| Module | Models |
| --- | --- |
| `ZrtpHandshake` | One channel between two endpoints, from channel creation to the secure state, with the network between them |
| `SrtpKeyInstall` | What the handshake promises to the two SRTP clients: the order in which keys and retained secrets are handed out |
| `MCZrtpHandshake`, `MCForkedCall` | Constants for TLC: two endpoints alone; a third endpoint whose packets reach A |
| `ZrtpHandshakeProofs` | Type correctness; one peer at a time |
| `ZrtpAgreementProofs` | Agreement on keys, also beside a third endpoint; the refinement of `SrtpKeyInstall` |
| `ZrtpContentionProofs` | Commit contention; no stall within the retransmissions |
| `RetainedSecrets` | The secrets that a caller and its devices retain over a series of sessions, and their caches |
| `MCRetainedSecrets` | Constants for TLC: symmetry of the devices |
| `RetainedSecretsProofs` | Type correctness and agreement on s0 |
| `RetainedVerifiedProofs` | The verified flag and the mismatch flag |
| `GoClear` | The channels of two endpoints between the secure and the clear mode, and the session key they share |
| `MCGoClear` | Constants for TLC: symmetry of the channels |
| `GoClearProofs` | Types, the status told to the application, session keys in step, equal keys, when a GoClear is missing |
| `FragmentReassembly` | One direction of a channel below the state machine: cutting a message by the MTU and putting it together again |
| `MCFragmentReassembly` | Constants for TLC: the lengths of the messages |
| `FragmentProofs` | Types; what is put together is what was sent |
| `AlgoAgreement` | The lists of algorithms, the choice each end makes and the Commit that overrides it |
| `MCAlgoAgreement` | Constants for TLC: two builds and the lists an application may ask for |
| `AlgoProofs` | The loops over the lists, the choice, the agreement |

### ZrtpHandshake

Each variable is a function of the endpoint and carries the name of the field it stands
for: `stateMachine`, `role`, `timerStatus` and `firingCount`, `selfSeq` and `peerSeq`,
`peerPackets` (the four slots that the handshake uses), `peerHelloHash`, `s0`, `mackeys`
(the four confirm keys, always derived together). `rx` and `tx` are the SRTP keys the
client was given by `bzrtp_srtpSecretsAvailable`, `rs1` the session whose
retained secret was written to the cache, `gen` counts the key pairs or nonces that were
drawn. `net` is the set of packets on the way to each endpoint.

Each entry point is an action. `bzrtp_processMessage` is `ProcessMessage`: a packet
passes the checks (`Accepts`: sequence number, message type expected in the state, then either
byte-for-byte comparison with the stored packet or the checks of the parser)
and is handled by the handler of the state and type, or is dropped. A handler includes
the INIT call of the state it enters, so that, for example, receiving a Confirm2 stores it, derives
the keys, updates the cache, calls the client twice, sends the Conf2ACK and stops the timer in one step.
Calls of the library are not interleaved within an endpoint: the engine has no threads
and a client calls it from one at a time.

Data is abstract. A message is its type, its sender, the attempt it belongs to, and what its
hashes and MACs bind it to: the endpoint whose Hello is hashed in the hvi of a DHM
Commit (`to`) and the key of a Confirm (`key`). A key is named by what is hashed into
it. A packet is a message under a sequence number, so a retransmission is another
packet with the same message, as in `bzrtp_packetSetSequenceNumber`.

Quirks of the code that are kept, because the properties depend on them: the
first Hello goes out at the first tick; `selfSequenceNumber` skips a number on INIT and
after the first Confirm2 (line 1313); `peerSequenceNumber` is not updated by a Conf2ACK; the
contention test reads the role after it may have been set (line 646); a packet is sent on the
last tick although the timer is not re-armed; in multistream mode the keys are derived
before the Confirm1 is checked (441-446); a restart leaves role and peer sequence
number; a reset stores 255 in `firingCount`, which is incremented to 0; and a Hello is not
acknowledged in `sendingCommit` (line 425), although the comment of the state says so (line 379), which does
no harm because the Commit stands for the HelloACK.

Constants: `HelloMax` and `NonHelloMax` (20 and 10 in the code), `FiringCounts` (256),
`InitialSeq`, `Hvi` (the comparison value of each endpoint's Commit, distinct for distinct
endpoints: a collision of hashes or nonces is not considered), `Signalled` and `StrayPackets` for
forked calls, and two bounds, `MaxFaults` and `MaxResets`. The network keeps the order
of one sender's packets unless a fault is used: a fault loses a packet, delivers one twice, or lets one
overtake exactly one other. Stray packets are assumed absent in multistream mode: a forked call is resolved
on its main channel.

### SrtpKeyInstall

Three steps over `rx`, `tx`, `rs1`: the initiator can receive; the responder can receive
and send, and retains the secret; the initiator can send, and retains the secret. Nothing is
ever withdrawn or replaced. `InstallsSrtpKeys` says that `ZrtpHandshake` implements it, with the same
variables and `Retains <- Mode = "DHM"`.

### RetainedSecrets

A caller and its devices hold one session after the other; between them only the caches
survive. `ctx` is `bzrtpContext_t`, reduced to the retained secrets (`cachedSecret`), their hashes, the row
in use (`zuid`), the mismatch flag and s0; `cache[p][q]` is the row that p has for q. The actions
are the points where secrets are touched: a Hello loads them (`RecvHello`, in
`bzrtp_responseToHelloMessage`), DHPart1 and DHPart2 match and discard them, Confirm2 and
Conf2ACK write the new one (`bzrtp_updateCachedSecrets`), `SASVerified` does the update that a mismatch
delayed, `SetPeerHelloHash` restarts a session begun with another device, and `End` destroys a
context at any moment, before or after the peer's. A new peer's row is inserted by the update
(`UpdatedZuid`), never by the load.

Roles are given and each message is received once: contention, loss and repetition are those of
`ZrtpHandshake`, whose `InitiatorCachesLast` is the order in which the two caches are written here. A secret
is named by its session and device and by the session its chain began in (`root`); equal
hashes are hashes of the same secret. Two variables only observe: `confirmed`, the chains whose SAS a
user has confirmed, and `lag`, the number of sessions, since the last
one that both caches hold, that only one of them holds. `lag` starts at 1 because a new pair has
no older secret to fall back on.

Left out: the auxiliary and PBX secrets, exported keys, the `active` flag of the ziduri table,
two sessions with one peer at the same time, and packets of a wrong device beyond its Hello.

`bzrtp_SASVerified` and `bzrtp_resetSASVerified` (`bzrtp.c` 607-637) look at no state. The model calls them on a secure channel only, which is an
assumption about the client: the SAS it shows its user is given to it by `bzrtp_startSrtpSession`, in the step that makes the channel
secure (`stateMachine.c:1451`). `NoFalseMismatch` forgives one cut session, but not the first ever between two ends, for which there is no
older secret: after that one the next call does warn.

It is assumed that both ends hash a secret alike, so that equal secrets have equal identifiers; finding 3
is about when they do not.

### GoClear

All channels start secure, with the roles that each of them settled for itself. `ch[p][c]` is the channel context, with the fields of the code: state, role, timer,
`isSecure`, `isClear`, the kept GoClear, sequence numbers; `key` stands for s0 and what is derived from it, and
is named by the ZRTPSess and the nonce of the Commit it came from, as the code hashes both into it.
`ZRTPSess[p]` counts the renewals of the session key, which is not negotiated: each end replaces it
when *it* goes to clear mode, and the next handshake works only if both have done so equally often.

`SendGoClear`, `ConfirmGoClear` and `BackToSecureMode` are the calls of the application; `ProcessMessage` has
one handler for each state and message, again with the INIT of the state it enters. `bzrtp_sendGoClear`
and the messages GoClear and ClearACK act on *all* channels of the context, while packets and timers belong to one.
The multistream handshake that leads back is included from Commit to Conf2ACK, with its contention.
The network keeps the order of a channel, between channels there is none; a fault loses
a packet or a copy of it into `late`, from where it may arrive at any later time.

An application may call `bzrtp_confirmGoClear` at any time; on a channel that is not in clear mode the call moves the firing count and does nothing
else (`MaxCalls` bounds such calls together with those of `bzrtp_sendGoClear`). `Timer` is `bzrtp_iterate`: the packet of the state is sent again
(`Retransmit`), or, in `state_sending_GoClear` with no GoClear built, `bzrtp_sendPacket` follows a NULL pointer (`Crash`). The process then ends: all
its channels are in the state `crashed`, in which nothing happens any more.

A call for clear mode, or to leave it, concerns all channels, and the code looks at the state of one (`Ask`). `uneven` counts the calls that found another
channel in another state; it only observes, and `Careful` says that there was none so far. Together with the faults these calls are
bounded by `MaxFaults`. Both ends accept GoClear; without the
A flag the call returns an error and changes nothing.

### FragmentReassembly

Byte i of message m is `<<m, i>>`, so that a packet string that was put together wrongly is visibly so. The
buffer of a new message is `Garbage` in every byte, because it is allocated without being set. `Build` and `Resend` follow
`bzrtp_packetBuild` and `bzrtp_packetSetSequenceNumber`: the fragments are cut once, and renumbered with every
retransmission, while the message id stays. `packetCheck` is the receiver: an old fragment is recognised by its
offset, a fragment of a newer message id discards what was collected, completion is the sum of the lengths. As
in the code the sequence number is taken over by the state machine, with a complete message it has not had yet
(`HandOver`). The network has no order at all. Sequence numbers, message ids and the sum of the lengths are computed modulo 2^16, the
width of their fields; `TypeOK` says that offsets and lengths fit 16 bits too, and that no packet is longer than the MTU.

### AlgoAgreement

The numbers and the four-character names are those of the code, because two things depend on them: the
key agreements are compared by number (the faster one is preferred), and the lists travel as names.
The actions are `setSupportedCryptoTypes` (any time before the context is initialised),
`initBzrtpContext` (post quantum key agreements call for AES3 and S512), `responseToHelloMessage` (each end chooses on the
peer's Hello), `sendCommit` and `turnIntoResponder` (the Commit replaces what was chosen). `secretIdHash` is the hash with which
the identifiers of the retained secrets were computed. `Available` is what a build implements: it depends on bctoolbox and
on the option for post quantum algorithms. By symmetry the lower hvi is B's.

## 3. Runs

All runs disable the deadlock check: a session ends when it is secure, or when its
retransmissions are used up, and the library then waits for the client; nobody has to leave
clear mode; after the roles are settled the algorithms do not change.

| Run | Question | Bounds | Result |
| --- | --- | --- | --- |
| `DhmSafety` | do roles, keys and caches agree on the main channel, and can it stall? | 1 fault, 1 call of `bzrtp_resetRetransmissionTimer` at any moment, 1 Hello retransmission | holds, 2.5 million states |
| `Liveness` | do both ends become secure? | 1 fault, fair | holds |
| `Mult` | both questions in multistream mode | 1 fault, fair | holds |
| `ForkedCall` | does a restart leave anything of the first session? | Hello, Commit and DHPart2 of a third endpoint | holds, 1.7 million states |
| `CutSessions` | do caches that were updated on one side only recover? | 1 device, 5 sessions | holds, 295 000 states |
| `ForkedSecrets` | the same with a call that reaches two devices | 2 devices, 4 sessions, symmetry | holds, 2.9 million states |
| `GoClear` | do all channels of both ends go to clear mode and back together? | 2 channels, either end the initiator of each, 2 calls, 1 timer, 1 fault or 1 uneven call, symmetry | holds, 1.9 million states |
| `Fragments` | is what is put together what was sent, and does it arrive? | 3 messages of 2, 1 and 3 fragments, 1 fault, any order, fair | holds, 220 000 states |
| `AlgoAgreement` | do two ends that choose by themselves choose what both can use? | all lists of up to 3 of 4 key agreements; lists of 3 | holds, 187 000 states |
| `ForkedRows` | does the row of a peer hold that peer's secrets? | 2 devices, 2 sessions | violated (finding 1) |
| `CrossingGoClear` | does an end that asked for clear mode get there? | 2 channels, 2 requests, no fault, fair | violated (finding 2) |
| `HashOrder` | are the identifiers of retained secrets comparable? | as `AlgoAgreement` | violated (finding 3) |

The bounds are enough for the cases that matter. With one Hello retransmission and the extra
packet of the last tick each packet of the handshake can be sent at least twice, so every
message is met late, repeated and missing. Every invariant of the passing runs is also
proved without these bounds, under the hypotheses named in section 4. `FiringCounts = 4` is above the maxima by the same margin as 256 is above 20, which is
all the code's comparisons see: the wrap from 255 to 0 is the wrap from 3 to 0. One attempt
per endpoint suffices without a third party; with one, the restart makes a second.

Five sessions hold the longest history that the matching can tell apart: one that completes, two that are
cut between the two updates, the mismatch that follows, and the session after it, with the SAS
confirmed or not in any of them. With two devices four sessions suffice for a shared history with each and
a restart between them. No fairness is assumed: these runs have safety properties only.

In `GoClear` two calls are both a crossing on one or two channels and a second round after the first, in which a
packet of the first may still arrive; `MaxFirings` bounds the retransmissions of all channels together, and
`NonHelloMax = 0` and `ClearAckMax = 0` let a timer give up after it. The second call may come when one channel is secure again and the other is still
on its way: the uneven call that the fault is exchanged for. In `Fragments` an MTU of 36 leaves 12
bytes for a fragment, so that a message of 28 ends in a shorter one; `MinimumMtu`, 600 in the code, is below it and
plays no part. `ListSize` is 7 in the code; with 3 the mandatory types do not fit beside what the
application asked for and have to displace it, which is the case the code is careful about. Two types with a choice (hash and cipher) and all
orders of the key agreements are enough for the rules, which treat the other types in the same way.

The tolerance shown by `Liveness` is tight: with the same retransmissions a second loss can leave
both ends waiting. In general the handshake stands min(`HelloMax`, `NonHelloMax` + 1)
losses, which is 11 with the constants of the code: that nothing stalls before is the theorem `NoStall` of section 4.

**Fairness.** `FairSpec` assumes that a client starts its engine, keeps calling
`bzrtp_iterate` (weak fairness of `Retransmit`: the timer stays on until it fires), and
that the network delivers what it does not lose (weak fairness of `Receive`). Nothing is assumed
of faults, resets or signalling. In `GoClear` the same holds of `Timer` and `Receive`, and nothing is assumed of the
application: nobody has to press a button, and a packet that the network holds back need not arrive. In
`FragmentReassembly` the state machine builds its messages, the timer repeats the last one (`Build`, `Resend`) and a packet
that is not lost arrives (`Receive`).

**Properties.** `RolesComplementary` and `LowestHviYields` are about contention;
`SentMediaDecryptable` and `InstallsSrtpKeys` about the keys; `InitiatorCachesLast` about the
retained secrets; `NeverStalled` and `BothSecure` about retransmission; `OnlySignalledPeer` about the
restart; `SameS0`, `NoFalseMismatch`, `VerifiedMeansConfirmed` and `PvsFollowsSecret` about the caches: equal
s0, no warning after a single cut session, and a verified flag that never outlives the secret it was given
for.

`SessionsInStep`, `SecureAlike`, `StatusTellsKeys` and `GoClearMissingOnlyIfUneven` are about clear mode: the renewals of ZRTPSess stay in step
although nothing negotiates them, channels that are secure at both ends have the same new keys, the application is never told
otherwise, and a timer is left without a GoClear to repeat in one way only. `ReassembledIntact` and `FragmentsInPlace` say that no
message is put together from two or from bytes nobody sent, and that no fragment is copied past its buffer;
`LastMessageArrives` that leftovers of earlier messages never block the present one. `ListsSurviveHello`, `HelloAccepted`,
`CrossingCommitsAgree`, `UsesSupported` and `PostQuantumStrength` say that the two ends reason about the same lists, that
neither rejects the other, that crossing Commits can be contended, that the Commit of the peer imposes nothing an application did
not allow, and that a post quantum key agreement is not paired with weaker algorithms.

Every property of a passing run has a mutant, a definition next to
the one it replaces, marked as such and used by no run: a plausible slip in the code that breaks the property.

### Findings

1. *A restart keeps the first device's secrets* (`stateMachine.c:2207`, run `ForkedRows`). They are loaded from the cache only
   when the context has no rs1 yet, and the restart clears neither `cachedSecret` nor `zuid`. The comment above says
   "get from cache, if relevant, the retained secrets associated to the peer ZID"; after a restart they are
   those of the device whose Hello came first, the DHParts carry their hashes, and the new secret
   ends up in the row of that device once the user confirms the SAS.
2. *A GoClear that crosses on another channel is never answered* (`stateMachine.c:1885`, run `CrossingGoClear`). The end whose
   GoClear is acknowledged first goes to `state_clear` with all its channels, where nothing but a Commit is
   accepted. It drops the other end's GoClear, whose sender stays in `state_sending_GoClear`, marked as secure, with keys its
   peer has destroyed. The comment at line 1754 and the test at `bzrtpConfigsTest.c:2429` provide for the crossing on one channel.
3. *The identifiers of retained secrets use a hash that may be replaced* (`stateMachine.c:2213`, run `HashOrder`). They are computed on
   the peer's Hello with the hash this end has chosen; the Commit replaces the hash (`bzrtp_turnIntoResponder`) and the
   identifiers stay. Ends that list the hashes in a different order report a cache mismatch for equal secrets.

Further observations, met while modelling. They have no run of their own, because no line of the repository states
the opposite as clearly, or because they lie outside what an application is meant to do:

- The role survives a restart by `bzrtp_setPeerHelloHash` (`bzrtp.c:877` and following). A channel that had become the responder of the
  wrong peer contends as a responder with the right one: it yields with the higher hvi, and when the peer yields too both wait without a
  timer. The peer's sequence number survives as well: the right peer is not heard until its numbers pass
  those of the wrong one.
- The comments at `stateMachine.c` 1260, 1302 and 1420 let the first SRTP message complete the initiator. There is no entry
  point for it: if all Conf2ACKs are lost the initiator never gets its sender keys.
- `bzrtp_set_MTU` (`bzrtp.c:1360`) does not round to words, while the header of a fragment counts in words. With `AskedMtu = 37`
  fragments are cut within a word and `LastMessageArrives` fails.
- The guard of `bzrtp_sendGoClear` (`bzrtp.c:1384`) is `== NULL && ->isSecure`, and never holds. What remains is that the channel of the
  call is in `state_secure`; it moves all the others, whatever their state (`stateMachine.c:1619`). One that is in clear mode or on its way back with its timer
  running has no GoClear, and its next timer event passes a NULL packet to `bzrtp_sendPacket` (`stateMachine.c` 1835, 2725). The model does the same
  (`Crash`), and the run `GoClear` takes the step; `GoClearMissingOnlyIfUneven` and the theorem `MissingOnlyIfUneven` say that this call is the only way to get there.
- When all ClearACKs are lost and the peer leaves clear mode, the sender of the GoClear stays where it is, as in finding 2.
- `ZRTPSessContext` is filled by two copies to offset 0 (`stateMachine.c` 2478-2482); `typedef.h:298` says ZIDi || ZIDr. It holds ZIDr at both ends, so
  they still derive the same key.
- The new ZRTPSess is written with the hash length of the channel that goes to clear mode (`stateMachine.c:1560`), while
  `ZRTPSessLength` is that of the main channel.
- When both applications list `Mult` first, it is chosen on the main channel too, where there is no ZRTPSess
  yet (`stateMachine.c:1059`).

## 4. Proofs

| Theorem | States | Under |
| --- | --- | --- |
| `ZrtpHandshakeProofs!TypeCorrect` | `Spec => []TypeOK` | |
| `ZrtpHandshakeProofs!SignalledPeerOnly` | `Spec => []OnlySignalledPeer` | |
| `ZrtpAgreementProofs!MediaDecryptable` | `Spec => []SentMediaDecryptable` | `StraysUnconfirmed` |
| `ZrtpAgreementProofs!CacheOrder` | `Spec => []InitiatorCachesLast` | `StraysUnconfirmed` |
| `ZrtpAgreementProofs!HandshakeInstalls` | `Spec => InstallsSrtpKeys` (refinement) | `StraysUnconfirmed` |
| `ZrtpContentionProofs!Complementary` | `Spec => []RolesComplementary` | `NoStrays` |
| `ZrtpContentionProofs!LowerHviYields` | `Spec => LowestHviYields` | `NoStrays` |
| `ZrtpContentionProofs!NoStall` | `Spec => []NeverStalled` | `NoStrays`, `EnoughRetransmissions` |
| `RetainedSecretsProofs!SecretsTypeCorrect` | `Spec => []TypeOK` of `RetainedSecrets` | |
| `RetainedSecretsProofs!S0Agreement` | `Spec => []SameS0` | |
| `RetainedVerifiedProofs!FlagFollows` | `Spec => []PvsFollowsSecret` | |
| `RetainedVerifiedProofs!ToldOnlyConfirmed` | `Spec => []VerifiedMeansConfirmed` | |
| `RetainedVerifiedProofs!OneCutForgiven` | `Spec => []NoFalseMismatch` | `OneDevice` |
| `GoClearProofs!Types` | `Spec => []TypeOK` of `GoClear` | |
| `GoClearProofs!StatusTold` | `Spec => []StatusTellsKeys` | |
| `GoClearProofs!InStep` | `Spec => []SessionsInStep` | |
| `GoClearProofs!Alike` | `Spec => []SecureAlike` | |
| `GoClearProofs!MissingOnlyIfUneven` | `Spec => GoClearMissingOnlyIfUneven` | |
| `FragmentProofs!Types` | `Spec => []TypeOK` of `FragmentReassembly` | |
| `FragmentProofs!Intact` | `Spec => []ReassembledIntact` | `WholeWords`, `NoIdTwice` |
| `FragmentProofs!InPlace` | `Spec => []FragmentsInPlace` | `WholeWords`, `NoIdTwice` |
| `AlgoProofs!ListsComplete` | `Spec => []TypeOK` of `AlgoAgreement` | |
| `AlgoProofs!ListsSurvive` | `Spec => []ListsSurviveHello` | |
| `AlgoProofs!NeverRefused` | `Spec => []HelloAccepted` | |
| `AlgoProofs!CommitsAgree` | `Spec => []CrossingCommitsAgree` | |
| `AlgoProofs!SupportedOnly` | `Spec => []UsesSupported` | |
| `AlgoProofs!StrongEnough` | `Spec => []PostQuantumStrength` | |

Every theorem holds for every value of the constants that satisfies the assumptions named in the modules, hence for any number of
retransmissions, faults, resets, sessions, devices, channels and messages, for both modes of the handshake, for lists of any size and
for any assignment of hvi values that distinguishes the endpoints. The last column names what a theorem assumes besides. Each of
these hypotheses is a condition that the code does not enforce:

- `StraysUnconfirmed`: a third endpoint may take part in discovery and key agreement with either end, with any packets in any
  order, but sends no Confirm1, Confirm2 or Conf2ACK. A session confirmed with a third endpoint is one whose keys the
  peer does not have, so that the three theorems would be false.
- `NoStrays`: no packets of a third endpoint. The role survives a restart, which makes contention with them a
  different matter (see the observations).
- `EnoughRetransmissions`: at most `HelloMax` and at most `NonHelloMax` + 1 faults, which is up to 11 faults with the code's 20 and 10.
  The bound is tight: with one fault more TLC finds the two ends waiting for each other. The run `DhmSafety` is at the bound.
- `OneDevice`: the caller has one device to call. With more, `NoFalseMismatch` is false: after finding 1 the secrets
  of two devices are mixed.
- `WholeWords`: the MTU is a multiple of four, because offsets are counted in words. `NoIdTwice`: the message ids, 16 bits wide
  and starting at most at 4096, do not wrap around. A context would have to build more than 61 000 messages for that; the code
  compares ids without regard to a wrap (`packetParser.c:168`).

The assumptions on constants are what the code or its build fix. `FragmentAssumption`: the MTU exceeds the overhead of a
fragment, the first number is drawn from 1..4096, a message is a whole number of words and has at least its header. `AlgoAssumption`: the
mandatory types are implemented and leave room in a list, `Mult` is listed last, DH3k before a list is full. TLC evaluates
them with every run.

*Types of the handshake.* `TypeOK` is not inductive: a handler that reads the stored Hello or the confirm
keys is typed only if they are there. `TypeInv` adds `HelloStored` (after discovery a Hello is stored) and
`KeysDerived` (in the confirming states the keys are derived, and s0 is there until the
cache is updated).

*One peer.* With any packets of a third endpoint. `PeerInv` says of each endpoint (`OnePeer`) that before a Hello is stored there is nothing
of any peer, and afterwards every kept message and both ends of the keys belong to the sender of that Hello. Then it is enough that
`bzrtp_setPeerHelloHash` either finds the right Hello or drops all of it.

*Agreement.* `AgreementInv` ties what is in flight to the state its sender is in *now*: a
Confirm on its way carries the keys its sender still has, and a Conf2ACK means that its
sender is secure as the responder (`MessageBy`). Beside a third endpoint there are two exceptions (`MessagesKnown`): a packet of the third endpoint,
and the Confirm1 of a session with it that the sender gave up when the Hello hash was signalled, whose keys are not for the peer (`Abandoned`). An endpoint
that has SRTP keys has them from its peer (`ConfirmedWithPeer`), so a restart never withdraws a key. The role that survives a restart does no harm
here: an endpoint that still is RESPONDER has no Commit stored and cannot check a DHPart1 against it (`RoleSettled`).
With these, the state in which a Confirm1, a Confirm2 or a
Conf2ACK is accepted determines the state of the peer (`KeysAgreed`) and what each client holds
(`Installed`). The proof sorts the steps into kinds (`StepOf`: quiet, negotiating, restarting, and the three that hand out
keys), shows that every action is of one kind, and then that each kind
keeps the invariant and is a step of `SrtpKeyInstall` or a stutter. Without a third endpoint `AloneInv` adds the stricter facts
(every packet and every stored Hello is the peer's, the role follows from the state) on which the next two arguments rest.

*Contention.* `ContentionInv` adds to `AloneInv` what a Commit says of its sender for as long as it is
in flight or stored: its hvi is still the sender's, and if the sender became the responder nevertheless, then its hvi is
the lower one (`CommitBy`). Hence two endpoints cannot both yield (`OneResponder`), and one that initiates
beyond the Commit has had a DHPart1 or a Confirm1 from a responder (`InitiatorsHaveResponder`).

*No stall.* The claim is that retransmissions outnumber faults, and the work is to say which retransmissions count. First the
handlers are reduced to a table of state, message type and next state (`Table`, `Transition`). With it `ProgressInv` extends the
invariants above from Commits and Confirms to every message: what is in flight or stored is what its sender would build now
(`GenuineSent`, `GenuineStored`), so a retransmission equals the stored copy it is compared with byte for byte; and the own state
limits how far the peer can be (`PeerStates`). Then one endpoint leads (`Leads`): the one whose retransmissions make
the other move, such as the one that waits for a HelloACK, or of two that send Commits the one with the higher hvi. `BudgetInv` says
of the leader that each time it has sent its request (`TimesSent`), the request is on its way and not overtaken, its answer is, or a fault has been spent
(`Accounted`). It is kept because requests of the leader and answers to it are never dropped on arrival (`RequestAccepted`,
`AnswerAccepted`), because a request that is taken is answered, and because every other loss costs a fault
(`ConsumedCount`). When both ends are in the initial state neither leads, and one of them, the one that started last, is accounted for. With an
idle network and all timers off, the leader has sent its request `HelloMax` + 1 or `NonHelloMax` + 2 times, which faults
alone cannot account for. A reset of the timer only adds retransmissions: `TimesSent` starts again from the firing count that wrapped.

*Retained secrets*, restarts included. `TypeInv` adds to the types where in the protocol each field may
be set: a loaded secret implies a row, s0 is there from the matching to the
update. `AgreementInv` fixes what is in flight: a DHPart carries the hashes that its sender loaded and
still has for as long as its context exists, and an s0 is the one that the hashes of both
contexts determine. The two matchings are then compared once, as operators: both
reduce to the common secret (`Common`): the initiator's rs1 if the responder has it in either place, else its rs2
if the responder has it, else none.

*The verified flag.* The properties speak of the flag, the proof of chains of secrets: `VerifiedInv` says that both secrets of a row
are of one chain (`RowsChained`), that the secrets and the s0 of a context are of the chain of the row in use unless there is a mismatch
(`Chained`), and that a flag set in a row, in a context or in a Confirm in flight stands for a chain that its user has confirmed
(`FlagsTrue`, `MessageTrue`). It holds with restarts too, although the row in use may then be another device's: the
flag and the secret come from the same row.

*The mismatch flag.* What one cut session leaves behind has to be said of the two rows together. Between sessions they are `Linked`: with no
session since the last common one they have the same rs1, with one, the rs2 of the row that is ahead is the rs1 of the other, or both are new. Within a
session (`Bridged`) an end that has written its row keeps the other's rs1 as its rs2, and two that have written have written the same. For the induction
`HistoryInv` adds what a context has of its row (`FromRow`), that a row is written only after the Conf2ACK and from an s0 that
both have (`Written`), and what a message says of its sender's row for as long as that is not written (`Tells`).
It is inductive relative to `TypeInv` and `SameS0`.

*Clear mode.* `StatusTellsKeys` follows from `TypeInv`, which says what keys a channel has in each state and under each flag
(`ContextOK`). For `GoClearMissingOnlyIfUneven` it also says
that the timer is off in the states secure and sendingConfirm1. No step but a `bzrtp_sendGoClear` brings a channel to `state_sending_GoClear`, or starts the
timer or takes the GoClear away there (`Quiet`); and that call starts the timer of its own channel with a GoClear, so a channel that lacks one
had its timer on before. For
`SessionsInStep` and `SecureAlike`, which are claimed as long as applications are `Careful`, the invariant is `Careful => SessionInv`. `SessionInv` says that all channels of an end wait for a ClearACK or none does (`Together`), that an end is at most one
renewal of ZRTPSess ahead, in which case all channels of the other still wait for their ClearACK and nothing of the new session has been
authenticated (`Ahead`), and of each channel (`ChannelInv`) what a packet in flight says of its sender if it is of the
present session (`SentBy`), and that equal sessions have equal keys (`Paired`). ClearACK and Conf2ACK carry nothing that authenticates them: that an old
one is not taken for a new one rests on the sequence number alone (`AcksRecent`), which in turn needs that nothing follows a Confirm while its sender waits
(`NothingAfter`).

*Fragments.* `IntactInv` says that every fragment the sender keeps or the network may deliver is a piece of its message at its place (`Faithful`), that one id
stands for one message, and that the fragments collected are pieces of one message, with their bytes in place (`InOrder`). A message is complete
when the lengths add up, so the last step is arithmetic: as every message is cut at the same places, different pieces are disjoint,
and with the right total length they leave no gap.

*Algorithms.* `AlgoInv` is short: lists are in order, complete and, once the context is initialised, strengthened (`Contexts`); an
endpoint uses what it has chosen or, as the responder, what the peer has, and a Commit carries its sender's choice (`Agreed`). The
work is in the loops over lists, which the model writes as recursive functions. The induction they need is
not available as a rule with a predicate, and is obtained with a set in its place: finite sets are well-founded under strict inclusion, hence
a set of numbers has a least element (`LeastNumber`), hence what holds at 0 and is passed on holds up to n (`InductionUpTo`), hence an
invariant of a loop holds when it ends (`Loop`). `CommonLoop`, `KeepLoop` and `AddLoop` are its three uses.

The invariants were checked by TLC, as invariants of the runs' instances, before they were proved.

Left to TLC: liveness (`BothSecure`, `LastMessageArrives`), which is out of the prover's reach. `NoStall` is the safety part of
`BothSecure`: that a state in which nothing more can happen is one where both ends are secure. In the presence of a third endpoint contention and stalls
are not proved: the surviving role breaks the one, and a higher sequence number that survives the other.

## 5. Not modelled, and the plan

Not modelled: serialisation, CRC, the layout of packets; failures of allocation, of the random generator and of the
client's callbacks; ping; preshared mode (no Commit of this code uses it); KEM key agreements,
where the responder draws its DHPart1 after the Commit; the sqlite storage, which is I/O; the text of the SAS; the crypto
wrappers and the PGP words, which have no state; the auxiliary secret, its mismatch and its expiry; the times at which a timer fires
(a tick may come at any moment); `bzrtp_addChannel` and `bzrtp_exportKey`.

Plan, in order:

1. The auxiliary secret: a restart appends the transient one again (`stateMachine.c:2239`).
2. The life cycle of a context: additional channels that wait for the main one, exported keys.
3. Timer arithmetic: the steps and the total time of a retransmission series.
4. Contention and stalls after a restart, for a restart that also resets the role and the sequence number.
