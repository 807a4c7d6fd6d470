------------------------------ MODULE WhatsAppHost ------------------------------
(***************************************************************************)
(* The process that hosts WhatsApp: the manager that follows the server    *)
(* settings (src/service/whatsapp_manager.ts) and the channels it makes,   *)
(* each with its socket (src/channels/whatsapp_channel.ts).  apply() calls *)
(* run one after another; a channel's start() is not awaited.              *)
(***************************************************************************)
EXTENDS Naturals, FiniteSets, Sequences

CONSTANTS
  MaxSaves,      \* bounds of the model: times the settings are saved,
  MaxChannels,   \* channels made, and connections lost
  MaxDrops

ASSUME HostAssumption == MaxSaves \in Nat /\ MaxChannels \in Nat /\ MaxDrops \in Nat

VARIABLES
  savedOn,       \* server settings: WhatsApp is on
  cached,      \* what this process read of them last
  polled,      \* settings a poll has read and not applied yet, "none" if none
  applying,    \* settings waiting to be applied, in order
  channel,     \* the manager's channel, 0 if none
  channelsMade,  \* how many channels there were so far
  waStarted, stopped, hostStatus, starting, reconnect, socket,   \* of each channel
  saves, drops

hostVars == <<savedOn, cached, polled, applying, channel, channelsMade, waStarted, stopped,
              hostStatus, starting, reconnect, socket, saves, drops>>

All == 1..MaxChannels
channelVars == <<waStarted, stopped, hostStatus, starting, reconnect, socket>>
countVars == <<saves, drops>>

HostInit ==
  /\ savedOn = FALSE /\ cached = FALSE /\ polled = "none" /\ applying = <<>> /\ channel = 0 /\ channelsMade = 0
  /\ waStarted = [i \in All |-> FALSE] /\ stopped = [i \in All |-> FALSE]
  /\ hostStatus = [i \in All |-> "disconnected"]
  /\ starting = [i \in All |-> FALSE] /\ reconnect = [i \in All |-> FALSE]
  /\ socket = [i \in All |-> FALSE]
  /\ saves = 0 /\ drops = 0

-----------------------------------------------------------------------------
\* The owner saves the settings here, which are applied at once, or on
\* another server.
SaveHere ==
  /\ saves < MaxSaves /\ saves' = saves + 1
  /\ savedOn' = ~savedOn /\ cached' = ~savedOn /\ applying' = Append(applying, ~savedOn)
  /\ UNCHANGED <<polled, channel, channelsMade, channelVars, drops>>
SaveElsewhere ==
  /\ saves < MaxSaves /\ saves' = saves + 1 /\ savedOn' = ~savedOn
  /\ UNCHANGED <<cached, polled, applying, channel, channelsMade, channelVars, drops>>

\* Faulty variant, for mutation checks: the poll takes what this process knows.
ReadKnown == cached

\* settings.whatsapp(true).
ReadFresh == savedOn

\* The poll: a read, applied when its answer has come.
Poll ==
  /\ polled = "none" /\ Len(applying) < 2
  /\ polled' = (IF ReadFresh THEN "on" ELSE "off") /\ cached' = ReadFresh
  /\ UNCHANGED <<savedOn, applying, channel, channelsMade, channelVars, countVars>>
ApplyPolled ==
  /\ polled # "none" /\ polled' = "none" /\ applying' = Append(applying, polled = "on")
  /\ UNCHANGED <<savedOn, cached, channel, channelsMade, channelVars, countVars>>

\* start() of a channel: nothing to do when it has started.
Start(i) ==
  IF waStarted[i] THEN UNCHANGED channelVars
  ELSE /\ waStarted' = [waStarted EXCEPT ![i] = TRUE] /\ stopped' = [stopped EXCEPT ![i] = FALSE]
       /\ hostStatus' = [hostStatus EXCEPT ![i] = "starting"] /\ starting' = [starting EXCEPT ![i] = TRUE]
       /\ UNCHANGED <<reconnect, socket>>

\* stop().
StopSocket(i) ==
  /\ stopped' = [stopped EXCEPT ![i] = TRUE] /\ waStarted' = [waStarted EXCEPT ![i] = FALSE]
  /\ hostStatus' = [hostStatus EXCEPT ![i] = "disconnected"] /\ socket' = [socket EXCEPT ![i] = FALSE]
  /\ UNCHANGED <<starting, reconnect>>

\* applyNow(): a channel is made, or stopped, or all is as it should be.
ApplyNow ==
  /\ applying # <<>> /\ applying' = Tail(applying)
  /\ LET on == Head(applying) IN
       \/ /\ on /\ channel = 0 /\ channelsMade < MaxChannels
          /\ channelsMade' = channelsMade + 1 /\ channel' = channelsMade + 1 /\ Start(channelsMade + 1)
       \/ /\ ~on /\ channel # 0 /\ StopSocket(channel) /\ channel' = 0 /\ UNCHANGED channelsMade
       \/ /\ on = (channel # 0) /\ UNCHANGED <<channel, channelsMade, channelVars>>
  /\ UNCHANGED <<savedOn, cached, polled, countVars>>

Channel(i) == i <= channelsMade /\ UNCHANGED <<savedOn, cached, polled, applying, channel, channelsMade>>

\* createSocket(), when the version and the login have been read.
CreateSocket(i) ==
  /\ starting[i] /\ starting' = [starting EXCEPT ![i] = FALSE] /\ socket' = [socket EXCEPT ![i] = TRUE]
  /\ Channel(i) /\ UNCHANGED <<waStarted, stopped, hostStatus, reconnect, countVars>>
StartFails(i) ==
  /\ starting[i] /\ drops < MaxDrops /\ drops' = drops + 1
  /\ starting' = [starting EXCEPT ![i] = FALSE] /\ waStarted' = [waStarted EXCEPT ![i] = FALSE]
  /\ hostStatus' = [hostStatus EXCEPT ![i] = "disconnected"]
  /\ Channel(i) /\ UNCHANGED <<stopped, reconnect, socket, saves>>

\* connection.update: a QR code to scan, or connected.
Opens(i) ==
  /\ socket[i] /\ hostStatus[i] # "connected"
  /\ \E to \in {"awaiting_qr", "connected"} : hostStatus[i] # to /\ hostStatus' = [hostStatus EXCEPT ![i] = to]
  /\ Channel(i) /\ UNCHANGED <<waStarted, stopped, starting, reconnect, socket, countVars>>

\* connection.update: closed; logged out, or to be connected again.
Closes(i) ==
  /\ socket[i] /\ drops < MaxDrops /\ drops' = drops + 1
  /\ socket' = [socket EXCEPT ![i] = FALSE]
  /\ \/ stopped[i] /\ UNCHANGED <<hostStatus, waStarted, reconnect>>
     \/ /\ ~stopped[i] /\ hostStatus' = [hostStatus EXCEPT ![i] = "logged_out"]
        /\ waStarted' = [waStarted EXCEPT ![i] = FALSE] /\ UNCHANGED reconnect
     \/ /\ ~stopped[i] /\ hostStatus' = [hostStatus EXCEPT ![i] = "disconnected"]
        /\ reconnect' = [reconnect EXCEPT ![i] = TRUE] /\ UNCHANGED waStarted
  /\ Channel(i) /\ UNCHANGED <<stopped, starting, saves>>

\* The timer of the reconnection.
Reconnect(i) ==
  /\ reconnect[i] /\ reconnect' = [reconnect EXCEPT ![i] = FALSE]
  /\ socket' = [socket EXCEPT ![i] = ~stopped[i]]
  /\ Channel(i) /\ UNCHANGED <<waStarted, stopped, hostStatus, starting, countVars>>

\* pair(), asked for in the web app.
Pair ==
  /\ channel # 0 /\ ~waStarted[channel] /\ Start(channel)
  /\ UNCHANGED <<savedOn, cached, polled, applying, channel, channelsMade, countVars>>

HostNext ==
  \/ SaveHere \/ SaveElsewhere \/ Poll \/ ApplyPolled \/ ApplyNow \/ Pair
  \/ \E i \in All : CreateSocket(i) \/ StartFails(i) \/ Opens(i) \/ Closes(i) \/ Reconnect(i)

HostFairness ==
  /\ WF_hostVars(Poll) /\ WF_hostVars(ApplyPolled) /\ WF_hostVars(ApplyNow)
  /\ \A i \in All : WF_hostVars(CreateSocket(i)) /\ WF_hostVars(Reconnect(i))

HostSpec == HostInit /\ [][HostNext]_hostVars /\ HostFairness

-----------------------------------------------------------------------------
\* The settings saved last are the ones the process ends up with, saved here
\* or on another server, read late or early (unless no more channels may be
\* made): WhatsApp on has a channel with a socket, or one that must be paired;
\* off has none.
LastSavedWins ==
  <>[](\/ channelsMade = MaxChannels
       \/ IF savedOn THEN channel # 0 /\ (socket[channel] \/ ~waStarted[channel]) ELSE channel = 0)

\* A quick on/off/on never has two connections to WhatsApp.
OneConnection == Cardinality({i \in All : socket[i]}) <= 1
=============================================================================
