--------------------------------- MODULE MCWeb ---------------------------------
(***************************************************************************)
(* Browser sharing for TLC: the gateway's browsers and threads, its        *)
(* sessions, one relay, one publishing browser, and the directory browsers *)
(* choose from.  `side' says which one runs.                               *)
(***************************************************************************)
EXTENDS WebSessions, WebGateway, WebRelay, WebPublisher

VARIABLE side

webVars == <<sessionVars, gatewayVars, relayVars, publisherVars, side>>

(* The components that do not run have one initial state each.             *)
WebInit ==
  /\ SessionsInit /\ GatewayInit /\ RelayInit /\ PublisherInit
  /\ side \in {"sessions", "gateway", "relay", "publisher"}
  /\ side # "sessions" => protected
  /\ side # "relay" => changeAt = GroupSize

WebNext ==
  /\ UNCHANGED side
  /\ \/ /\ side = "sessions" /\ SessionsNext
        /\ UNCHANGED <<gatewayVars, relayVars, publisherVars>>
     \/ /\ side = "gateway" /\ GatewayNext
        /\ UNCHANGED <<sessionVars, relayVars, publisherVars>>
     \/ /\ side = "relay" /\ RelayNext
        /\ UNCHANGED <<sessionVars, gatewayVars, publisherVars>>
     \/ /\ side = "publisher" /\ PublisherNext
        /\ UNCHANGED <<sessionVars, gatewayVars, relayVars>>

(* Threads are scheduled and reads time out; a browser need not read, and  *)
(* nobody need publish.                                                    *)
GatewayStep(A) == side = "gateway" /\ A /\ UNCHANGED <<sessionVars, relayVars, publisherVars, side>>
PublisherStep(A) == side = "publisher" /\ A /\ UNCHANGED <<sessionVars, gatewayVars, relayVars, side>>

WebFairness ==
  /\ WF_webVars(GatewayStep(AcceptTurn)) /\ WF_webVars(GatewayStep(HttpTurn))
  /\ \A c \in Browsers :
       WF_webVars(GatewayStep(ClientTurn(c))) /\ WF_webVars(GatewayStep(Renew(c)))
  /\ WF_webVars(PublisherStep(PublishTurn))
  /\ \A h \in BothThreads : WF_webVars(PublisherStep(HelperEnds(h)))

WebSpec == WebInit /\ [][WebNext]_webVars /\ WebFairness

(* The gateway counts right: slots and threads, failed logins and blocks,  *)
(* sessions and logins, while requests and browsers come as they like.     *)
GatewayKept == SlotsCounted /\ LoginsKept

(* In both directions the audio is whole: what a browser plays follows the *)
(* stream's time in the format it was told, what it records is sent in     *)
(* packets numbered without a gap.                                         *)
BrowserAudioWhole == RelayKeepsTime /\ SentWhole

(* What a browser or the desktop application stops, ends.                  *)
GatewayEnds == StopEndsAll /\ LeaversFreeSlots /\ PublishingEnds

=============================================================================
