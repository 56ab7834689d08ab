------------------------------ MODULE WebGateway ------------------------------
(***************************************************************************)
(* Browser sharing (audio-core, web_gateway.rs): the accept loop gives     *)
(* each browser a slot and a thread, which checks the session once, waits  *)
(* for the browser to choose a stream, then relays it and keeps it         *)
(* subscribed with a second thread, or publishes what the browser records. *)
(*                                                                         *)
(* The sockets are the browsers': `browser' says whether one still reads.  *)
(* What is relayed is the matter of WebRelay, what is published of         *)
(* WebPublisher, sessions of WebSessions.                                  *)
(***************************************************************************)
EXTENDS Integers, FiniteSets

CONSTANTS
  Browsers,    \* connections browsers make
  Publishing,  \* those to /publish-ws
  MaxClients   \* WebGatewayConfig.max_clients: 8

ASSUME GatewayAssumption == Publishing \subseteq Browsers /\ MaxClients \in Nat \ {0}

VARIABLES
  keepRunning,   \* keep_running, lowered by the desktop application
  acceptPc,      \* run_web_gateway: "looking", "accepting", "rejecting", "joining", "ended"
  httpPc,        \* run_http_server: "looking", "accepting", "ended"
  activeClients, \* GatewayState.active_clients
  clientPc,      \* the thread of a connection
  sessionActive, \* the flag it shares with its resubscribe thread
  renewer,       \* the resubscribe thread: "none", "looking", "asking", "ended"
  hasHeard,      \* packets_received > 0
  reportDue,     \* last_metrics_report is a second ago
  browser        \* "reads", "stalls" (it takes nothing), "left", "reset"

gatewayVars == <<keepRunning, acceptPc, httpPc, activeClients, clientPc, sessionActive,
                 renewer, hasHeard, reportDue, browser>>

Outside == {"away", "connected", "rejecting", "ended"}
Threads == {c \in Browsers : clientPc[c] \notin Outside}

-----------------------------------------------------------------------------
(* run_web_gateway.                                                        *)

AcceptLooks ==
  /\ acceptPc = "looking"
  /\ acceptPc' = IF keepRunning THEN "accepting" ELSE "joining"
  /\ UNCHANGED <<keepRunning, httpPc, activeClients, clientPc, sessionActive, renewer,
                 hasHeard, reportDue, browser>>

(* reserve_client_slot, the client's thread takes the slot along.          *)
SlotFree == activeClients < MaxClients

Admit(c) ==
  /\ acceptPc = "accepting" /\ clientPc[c] = "connected"
  /\ SlotFree
  /\ activeClients' = activeClients + 1
  /\ clientPc' = [clientPc EXCEPT ![c] = "handshake"]
  /\ acceptPc' = "looking"
  /\ UNCHANGED <<keepRunning, httpPc, sessionActive, renewer, hasHeard, reportDue, browser>>

(* reject_tcp_connection writes the 503 from the accept loop, and without a *)
(* time limit: over TLS the handshake comes first, which waits for the     *)
(* browser.                                                                *)
Reject(c) ==
  /\ acceptPc = "accepting" /\ clientPc[c] = "connected"
  /\ ~ SlotFree
  /\ clientPc' = [clientPc EXCEPT ![c] = "rejecting"]
  /\ acceptPc' = "rejecting"
  /\ UNCHANGED <<keepRunning, httpPc, activeClients, sessionActive, renewer, hasHeard,
                 reportDue, browser>>

Rejected(c) ==
  /\ acceptPc = "rejecting" /\ clientPc[c] = "rejecting"
  /\ clientPc' = [clientPc EXCEPT ![c] = "ended"]
  /\ acceptPc' = "looking"
  /\ UNCHANGED <<keepRunning, httpPc, activeClients, sessionActive, renewer, hasHeard,
                 reportDue, browser>>

AcceptIdles ==
  /\ acceptPc = "accepting"
  /\ \A c \in Browsers : clientPc[c] # "connected"
  /\ acceptPc' = "looking"
  /\ UNCHANGED <<keepRunning, httpPc, activeClients, clientPc, sessionActive, renewer,
                 hasHeard, reportDue, browser>>

(* It waits for the HTTP server, not for the browsers' threads.            *)
AcceptEnds ==
  /\ acceptPc = "joining" /\ httpPc = "ended"
  /\ acceptPc' = "ended"
  /\ UNCHANGED <<keepRunning, httpPc, activeClients, clientPc, sessionActive, renewer,
                 hasHeard, reportDue, browser>>

(* run_http_server: a thread per request, which it does not wait for.      *)
HttpTurn ==
  /\ \/ httpPc = "looking" /\ httpPc' = (IF keepRunning THEN "accepting" ELSE "ended")
     \/ httpPc = "accepting" /\ httpPc' = "looking"
  /\ UNCHANGED <<keepRunning, acceptPc, activeClients, clientPc, sessionActive, renewer,
                 hasHeard, reportDue, browser>>

-----------------------------------------------------------------------------
(* handle_ws_client.                                                       *)

Goes(c, pc) == clientPc' = [clientPc EXCEPT ![c] = pc]

(* The thread returns: session_active is lowered, ClientSlot::drop.        *)
(* Faulty variant: the slot is kept.                                       *)
Ends_KeepsSlot(c) ==
  /\ Goes(c, "ended")
  /\ sessionActive' = [sessionActive EXCEPT ![c] = FALSE]
  /\ UNCHANGED activeClients

Ends(c) ==
  /\ Goes(c, "ended")
  /\ sessionActive' = [sessionActive EXCEPT ![c] = FALSE]
  /\ activeClients' = activeClients - 1

Gone(c) == browser[c] \in {"left", "reset"}

(* accept_hdr checks the session; without one, or when the browser left or *)
(* said nothing for 10 s, the thread ends.  What a browser sent before it  *)
(* left is read all the same.                                              *)
Handshake(c) ==
  /\ clientPc[c] = "handshake"
  /\ \/ Goes(c, IF c \in Publishing THEN "publishing" ELSE "selecting")
        /\ UNCHANGED <<activeClients, sessionActive>>
     \/ Ends(c)
  /\ UNCHANGED <<keepRunning, acceptPc, httpPc, renewer, hasHeard, reportDue, browser>>

(* wait_for_stream_selection looks at the flag, then waits for a message.  *)
SelectLooks(c) ==
  /\ clientPc[c] = "selecting"
  /\ IF keepRunning THEN Goes(c, "reading") /\ UNCHANGED <<activeClients, sessionActive>>
     ELSE Ends(c)
  /\ UNCHANGED <<keepRunning, acceptPc, httpPc, renewer, hasHeard, reportDue, browser>>

(* A stream is chosen, perhaps by a browser that has left since.           *)
Select(c) ==
  /\ clientPc[c] = "reading"
  /\ Goes(c, "relaying")
  /\ sessionActive' = [sessionActive EXCEPT ![c] = TRUE]
  /\ renewer' = [renewer EXCEPT ![c] = "looking"]
  /\ UNCHANGED <<keepRunning, acceptPc, httpPc, activeClients, hasHeard, reportDue, browser>>

(* Another message, or a stream that is not there, is answered, and the    *)
(* loop goes on.  Of what a browser left unread behind it at most one      *)
(* message is answered here; in the code as many as were buffered.         *)
Answer(c) ==
  /\ clientPc[c] = "reading" /\ browser[c] # "reset"
  /\ Goes(c, "answering")
  /\ UNCHANGED <<keepRunning, acceptPc, httpPc, activeClients, sessionActive, renewer,
                 hasHeard, reportDue, browser>>

(* The read fails: the browser left, or said nothing for 10 s.             *)
SelectEnds(c) ==
  /\ clientPc[c] = "reading"
  /\ Ends(c)
  /\ UNCHANGED <<keepRunning, acceptPc, httpPc, renewer, hasHeard, reportDue, browser>>

(* relay_audio_to_websocket looks at the flag, then waits for a packet,    *)
(* 200 ms at most; the socket may fail.                                    *)
RelayLooks(c) ==
  /\ clientPc[c] = "relaying"
  /\ IF keepRunning THEN Goes(c, "receiving") /\ UNCHANGED <<activeClients, sessionActive>>
     ELSE Ends(c)
  /\ UNCHANGED <<keepRunning, acceptPc, httpPc, renewer, hasHeard, reportDue, browser>>

ReceiveFails(c) ==
  /\ clientPc[c] = "receiving"
  /\ Ends(c)
  /\ UNCHANGED <<keepRunning, acceptPc, httpPc, renewer, hasHeard, reportDue, browser>>

HearAudio(c) ==
  /\ clientPc[c] = "receiving"
  /\ hasHeard' = [hasHeard EXCEPT ![c] = TRUE]
  /\ Goes(c, "sending")
  /\ UNCHANGED <<keepRunning, acceptPc, httpPc, activeClients, sessionActive, renewer,
                 reportDue, browser>>

(* Only who has heard something is sent metrics.                           *)
(* Faulty variant: metrics go with packets only.                           *)
HearNothing_NoReport(c) ==
  /\ clientPc[c] = "receiving"
  /\ reportDue' = [reportDue EXCEPT ![c] = TRUE]
  /\ Goes(c, "relaying")
  /\ UNCHANGED <<keepRunning, acceptPc, httpPc, activeClients, sessionActive, renewer,
                 hasHeard, browser>>

HearNothing(c) ==
  /\ clientPc[c] = "receiving"
  /\ IF hasHeard[c] /\ reportDue[c]
     THEN Goes(c, "sending") /\ reportDue' = [reportDue EXCEPT ![c] = FALSE]
     ELSE Goes(c, "relaying") /\ reportDue' = [reportDue EXCEPT ![c] = TRUE]
  /\ UNCHANGED <<keepRunning, acceptPc, httpPc, activeClients, sessionActive, renewer,
                 hasHeard, browser>>

(* ws.send returns when the browser reads or is gone; who has left resets  *)
(* the connection with it, and only the send after that fails.             *)
Sent(c, pc) ==
  /\ browser[c] \in {"reads", "left"} /\ Goes(c, pc)
  /\ browser' = [browser EXCEPT ![c] = IF browser[c] = "left" THEN "reset" ELSE @]
  /\ UNCHANGED <<activeClients, sessionActive>>

SendReturns(c) ==
  /\ clientPc[c] = "sending"
  /\ \/ Sent(c, "relaying")
     \/ browser[c] = "reset" /\ Ends(c) /\ UNCHANGED browser
  /\ UNCHANGED <<keepRunning, acceptPc, httpPc, renewer, hasHeard, reportDue>>

(* send_ws_error ignores that it failed.                                   *)
AnswerReturns(c) ==
  /\ clientPc[c] = "answering"
  /\ Sent(c, "selecting")
  /\ UNCHANGED <<keepRunning, acceptPc, httpPc, renewer, hasHeard, reportDue>>

(* handle_publish_ws reads, for 10 s at most, and looks at the flag.       *)
PublishEnds(c) ==
  /\ clientPc[c] = "publishing"
  /\ ~ keepRunning \/ Gone(c)
  /\ Ends(c)
  /\ UNCHANGED <<keepRunning, acceptPc, httpPc, renewer, hasHeard, reportDue, browser>>

(* start_resubscribe_thread: asks, and looks at both flags in between.     *)
Renew(c) ==
  /\ \/ renewer[c] = "looking"
        /\ renewer' = [renewer EXCEPT ![c] =
             IF sessionActive[c] /\ keepRunning THEN "asking" ELSE "ended"]
     \/ renewer[c] = "asking" /\ renewer' = [renewer EXCEPT ![c] = "looking"]
  /\ UNCHANGED <<keepRunning, acceptPc, httpPc, activeClients, clientPc, sessionActive,
                 hasHeard, reportDue, browser>>

-----------------------------------------------------------------------------
(* The desktop application and the browsers.                               *)
Stop ==
  /\ keepRunning /\ keepRunning' = FALSE
  /\ UNCHANGED <<acceptPc, httpPc, activeClients, clientPc, sessionActive, renewer,
                 hasHeard, reportDue, browser>>

Connect(c) ==
  /\ clientPc[c] = "away" /\ acceptPc \in {"looking", "accepting"}
  /\ Goes(c, "connected")
  /\ UNCHANGED <<keepRunning, acceptPc, httpPc, activeClients, sessionActive, renewer,
                 hasHeard, reportDue, browser>>

BrowserTurns(c, from, to) ==
  /\ clientPc[c] \notin {"away", "ended"} /\ browser[c] \in from
  /\ browser' = [browser EXCEPT ![c] = to]
  /\ UNCHANGED <<keepRunning, acceptPc, httpPc, activeClients, clientPc, sessionActive,
                 renewer, hasHeard, reportDue>>

GatewayInit ==
  /\ keepRunning = TRUE /\ acceptPc = "looking" /\ httpPc = "looking"
  /\ activeClients = 0
  /\ clientPc = [c \in Browsers |-> "away"]
  /\ sessionActive = [c \in Browsers |-> FALSE]
  /\ renewer = [c \in Browsers |-> "none"]
  /\ hasHeard = [c \in Browsers |-> FALSE]
  /\ reportDue = [c \in Browsers |-> FALSE]
  /\ browser = [c \in Browsers |-> "reads"]

AcceptTurn ==
  \/ AcceptLooks \/ AcceptIdles \/ AcceptEnds
  \/ \E c \in Browsers :
       Admit(c) \/ Reject(c) \/ (browser[c] # "stalls" /\ Rejected(c))

ClientTurn(c) ==
  \/ Handshake(c) \/ SelectLooks(c) \/ SelectEnds(c) \/ AnswerReturns(c)
  \/ RelayLooks(c) \/ HearNothing(c) \/ SendReturns(c) \/ PublishEnds(c)

GatewayNext ==
  \/ AcceptTurn \/ HttpTurn \/ Stop
  \/ \E c \in Browsers :
       \/ ClientTurn(c) \/ Select(c) \/ Answer(c)
       \/ HearAudio(c) \/ ReceiveFails(c) \/ Renew(c)
       \/ Connect(c) \/ Rejected(c)
       \/ BrowserTurns(c, {"reads"}, "stalls")
       \/ BrowserTurns(c, {"stalls"}, "reads")
       \/ BrowserTurns(c, {"reads", "stalls"}, "left")

-----------------------------------------------------------------------------
(* active_clients is the number of threads that serve a browser, whatever  *)
(* way they ended, and within the limit: no slot leaks (web_gateway.rs     *)
(* 251-259, 520-527).                                                      *)
SlotsCounted == activeClients = Cardinality(Threads) /\ activeClients <= MaxClients

(* After a stop the gateway returns, unless a browser it turns away holds  *)
(* the accept loop, and every browser's threads end, save one whose browser *)
(* neither reads nor leaves; a stream no longer relayed is no longer       *)
(* subscribed to (web_gateway.rs 343-415, 1091-1250).                      *)
Asleep(c) == clientPc[c] \in Outside /\ renewer[c] \in {"none", "ended"}
Stalled(c, pcs) == clientPc[c] \in pcs /\ browser[c] = "stalls"

StopEndsAll ==
  /\ ~ keepRunning ~> acceptPc = "ended" \/ \E c \in Browsers : Stalled(c, {"rejecting"})
  /\ \A c \in Browsers :
       /\ ~ keepRunning ~> Asleep(c) \/ Stalled(c, {"sending", "answering"})
       /\ clientPc[c] = "ended" ~> Asleep(c)

(* A browser that left frees its slot, wherever its thread was, unless its *)
(* relay was never sent a packet: a relay reads nothing from the browser,  *)
(* learns that it left by failing to send, and sends nothing before it has *)
(* heard audio (web_gateway.rs 1163-1226, 1477-1514).                      *)
Unheard(c) == clientPc[c] \in {"relaying", "receiving"} /\ ~ hasHeard[c]

LeaversFreeSlots ==
  \A c \in Browsers :
    c \in Threads /\ Gone(c) ~> ~ keepRunning \/ clientPc[c] = "ended" \/ Unheard(c)

=============================================================================
