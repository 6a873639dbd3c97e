---------------------------- MODULE LogStreamer ----------------------------
(***************************************************************************)
(* The bridge's logger (bridge-sdk/logger.go) and the streaming of its     *)
(* entries to web clients (bridge-sdk/log_streamer.go), with the page that *)
(* reads them (logsHandler in bridge-sdk/example/main.go).  An entry is    *)
(* its number, and a kind that the filters tell apart: a filter is the set *)
(* of kinds it lets through.  Age filters and pings are left out, as are   *)
(* the zero entries a closed log channel yields until its reader ends.     *)
(***************************************************************************)
EXTENDS Naturals, Sequences, FiniteSets, SequencesExt

CONSTANTS
  Client,        \* places for connections of web clients
  Filter,        \* the filters clients set
  RecentLimit,   \* entries of the buffer a client is sent first
  LogCap,        \* capacity of the subscription: 100
  SendCap,       \* capacity of a client's channel: 256
  MaxEntries     \* bound: entries logged

\* "info" stands for everything from info up.
Kind == {"debug", "info"}
InfoFilter == {"info"}

ASSUME StreamAssumption ==
  /\ Filter \subseteq SUBSET Kind
  /\ RecentLimit \in Nat \ {0} /\ LogCap \in Nat \ {0} /\ SendCap \in Nat \ {0}

VARIABLES
  logged,      \* the kinds of all entries logged; logBuffer is the end of it
  logChannel,  \* the streamer's subscription
  lost,        \* history: entries that found it full or closed
  subscribed,  \* it is among the logger's subscribers
  streaming,   \* isRunning, and the goroutines of Start
  stopClosed,  \* stopChannel is closed
  clients,     \* ls.clients
  cl,          \* every place's connection
  panicked      \* a goroutine panicked, and the process is gone

logVars == <<logged, logChannel, lost>>
serviceVars == <<subscribed, streaming, stopClosed>>
streamVars == <<logVars, serviceVars, clients, cl, panicked>>

\* had is history: the entries the client was sent, and those it could not be sent.
Free ==
  [reader |-> "free", up |-> FALSE, open |-> FALSE, send |-> <<>>, writer |-> FALSE,
   filter |-> InfoFilter, recents |-> "none", recent |-> <<>>,
   had |-> {}, since |-> 0]

StreamInit ==
  /\ logged = <<>> /\ logChannel = <<>> /\ lost = {}
  /\ subscribed = TRUE
  /\ streaming = FALSE /\ stopClosed = FALSE
  /\ clients = {}
  /\ cl = [c \in Client |-> Free]
  /\ panicked = FALSE

\* logWithLevel for entries of these kinds: into the buffer, and into the
\* subscription as far as there is room.  ch is what the subscription holds before.
Logging(kinds, ch) ==
  LET n == Len(logged)
      room == IF subscribed THEN LogCap - Len(ch) ELSE 0
      taken == IF Len(kinds) < room THEN Len(kinds) ELSE room
  IN /\ n + Len(kinds) <= MaxEntries
     /\ logged' = logged \o kinds
     /\ logChannel' = ch \o [i \in 1 .. taken |-> n + i]
     /\ lost' = lost \cup {n + i : i \in taken + 1 .. Len(kinds)}

\* The last entries of the buffer.
Recent ==
  LET n == Len(logged)
      first == IF n > RecentLimit THEN n - RecentLimit + 1 ELSE 1
  IN [i \in 1 .. n - first + 1 |-> first + i - 1]

Wants(c, e) == logged[e] \in cl[c].filter
Full(c) == Len(cl[c].send) >= SendCap

Panic ==
  /\ panicked' = TRUE
  /\ UNCHANGED <<logVars, serviceVars, clients, cl>>
-----------------------------------------------------------------------------
\* Anyone logs anything.
LogEntry ==
  /\ \E kind \in Kind : Logging(<<kind>>, logChannel)
  /\ UNCHANGED <<serviceVars, clients, cl, panicked>>

StartStreaming ==
  /\ ~streaming
  /\ streaming' = TRUE
  /\ Logging(<<"info">>, logChannel)
  /\ UNCHANGED <<subscribed, stopClosed, clients, cl, panicked>>

\* The clients' channels and connections are closed; their readers find out later.
Closing(S) ==
  [c \in Client |-> IF c \in S THEN [cl[c] EXCEPT !.open = FALSE, !.up = FALSE] ELSE cl[c]]

StopStreaming ==
  /\ streaming
  /\ IF stopClosed \/ \E c \in clients : ~cl[c].open THEN Panic ELSE
       /\ streaming' = FALSE /\ stopClosed' = TRUE /\ subscribed' = FALSE
       /\ cl' = Closing(clients)
       /\ clients' = {}
       /\ UNCHANGED <<logVars, panicked>>

\* A client is listed first, and what it is sent first is copied later.
HandleWebSocket(c) ==
  /\ cl[c].reader \in {"free", "gone"} /\ ~cl[c].writer /\ cl[c].recents = "none"
  /\ cl' = [cl EXCEPT ![c] = [Free EXCEPT !.reader = "reading", !.up = TRUE,
                                !.open = TRUE, !.writer = TRUE, !.recents = "starting"]]
  /\ clients' = clients \cup {c}
  /\ Logging(<<"info">>, logChannel)
  /\ UNCHANGED <<serviceVars, panicked>>

\* streamLogs takes an entry and offers it to all clients under a read lock; that a
\* client's channel is full is logged.
distributeLogEntry ==
  /\ streaming /\ ~stopClosed
  /\ logChannel # <<>>
  /\ LET e == Head(logChannel)
         wanting == {c \in clients : Wants(c, e)}
         full == {c \in wanting : Full(c)}
     IN IF \E c \in wanting : ~cl[c].open THEN Panic ELSE
          /\ cl' = [c \in Client |->
               IF c \in full THEN [cl[c] EXCEPT !.had = @ \cup {e}]
               ELSE IF c \in wanting THEN [cl[c] EXCEPT !.send = Append(@, e)]
               ELSE cl[c]]
          /\ Logging([i \in 1 .. Cardinality(full) |-> "debug"], Tail(logChannel))
          /\ UNCHANGED <<serviceVars, clients, panicked>>

CopyRecent(c) ==
  /\ cl[c].recents = "starting"
  /\ cl' = [cl EXCEPT ![c].recents = "sending", ![c].recent = Recent,
              ![c].since = IF @ # 0 THEN @
                           ELSE IF Len(logged) > RecentLimit THEN Len(logged) - RecentLimit + 1 ELSE 1]
  /\ UNCHANGED <<logVars, serviceVars, clients, panicked>>

\* One round of the loop of sendRecentLogs, which gives up when the channel is full.
SendRecent(c) ==
  /\ cl[c].recents = "sending"
  /\ LET rest == cl[c].recent
     IN \/ /\ rest # <<>>
           /\ Wants(c, Head(rest))
           /\ ~cl[c].open
           /\ Panic
        \/ /\ rest # <<>>
           /\ Wants(c, Head(rest)) => cl[c].open /\ ~Full(c)
           /\ cl' = [cl EXCEPT ![c].recent = Tail(rest),
                       ![c].send = IF Wants(c, Head(rest)) THEN Append(@, Head(rest)) ELSE @]
           /\ UNCHANGED <<logVars, serviceVars, clients, panicked>>
        \/ /\ rest # <<>> => Wants(c, Head(rest)) /\ cl[c].open /\ Full(c)
           /\ cl' = [cl EXCEPT ![c].recents = "none", ![c].recent = <<>>,
                       ![c].had = @ \cup Range(rest)]
           /\ UNCHANGED <<logVars, serviceVars, clients, panicked>>

\* writeToClient: the connection takes the next entry, or is down.
WriteLog(c) ==
  /\ cl[c].writer
  /\ cl[c].send # <<>>
  /\ LET e == Head(cl[c].send)
     IN IF cl[c].up
        THEN /\ cl' = [cl EXCEPT ![c].send = Tail(@), ![c].had = @ \cup {e}]
             /\ UNCHANGED logVars
        ELSE /\ cl' = [cl EXCEPT ![c].send = Tail(@), ![c].had = @ \cup {e}, ![c].writer = FALSE]
             /\ Logging(<<"info">>, logChannel)
  /\ UNCHANGED <<serviceVars, clients, panicked>>

\* The channel is closed and empty, or a ping has failed.
WriterEnds(c) ==
  /\ cl[c].writer
  /\ cl[c].send = <<>>
  /\ ~cl[c].open \/ ~cl[c].up
  /\ cl' = [cl EXCEPT ![c].writer = FALSE]
  /\ UNCHANGED <<logVars, serviceVars, clients, panicked>>

\* The page asks for recent logs when it is connected, and so gets them twice.
\* Bound: one request at a time.
RequestRecentLogs(c) ==
  /\ cl[c].reader = "reading" /\ cl[c].up
  /\ cl[c].recents = "none"
  /\ cl' = [cl EXCEPT ![c].recents = "starting"]
  /\ UNCHANGED <<logVars, serviceVars, clients, panicked>>

\* The page's selections; what comes from now on is filtered by them.
updateClientFilters(c) ==
  /\ cl[c].reader = "reading" /\ cl[c].up
  /\ \E f \in Filter :
       cl' = [cl EXCEPT ![c].filter = f, ![c].since = Len(logged) + 1]
  /\ Logging(<<"debug">>, logChannel)
  /\ UNCHANGED <<serviceVars, clients, panicked>>

Disconnect(c) ==
  /\ cl[c].up
  /\ cl' = [cl EXCEPT ![c].up = FALSE]
  /\ UNCHANGED <<logVars, serviceVars, clients, panicked>>

FaultyLeave(c) ==
  /\ cl[c].reader = "reading" /\ ~cl[c].up
  /\ cl' = [cl EXCEPT ![c].reader = "leaving", ![c].open = FALSE]
  /\ UNCHANGED <<logVars, serviceVars, clients, panicked>>

\* handleClient has read an error: first it takes the client from the map.
Leave(c) ==
  /\ cl[c].reader = "reading" /\ ~cl[c].up
  /\ clients' = clients \ {c}
  /\ cl' = [cl EXCEPT ![c].reader = "leaving"]
  /\ UNCHANGED <<logVars, serviceVars, panicked>>

\* Then it closes the channel, whoever has closed it before.
CloseSend(c) ==
  /\ cl[c].reader = "leaving"
  /\ IF ~cl[c].open THEN Panic ELSE
       /\ cl' = [cl EXCEPT ![c].reader = "gone", ![c].open = FALSE]
       /\ Logging(<<"info">>, logChannel)
       /\ UNCHANGED <<serviceVars, clients, panicked>>

\* Clients that have sent nothing for five minutes; the page sends nothing unless
\* its user changes a filter.
cleanupInactiveClients ==
  /\ streaming /\ ~stopClosed
  /\ \E S \in (SUBSET clients) \ {{}} :
       IF \E c \in S : ~cl[c].open THEN Panic ELSE
         /\ cl' = Closing(S)
         /\ clients' = clients \ S
         /\ Logging([i \in 1 .. Cardinality(S) |-> "info"], logChannel)
         /\ UNCHANGED <<serviceVars, panicked>>

StreamNext ==
  /\ ~panicked
  /\ \/ LogEntry \/ StartStreaming \/ StopStreaming \/ distributeLogEntry \/ cleanupInactiveClients
     \/ \E c \in Client :
          \/ HandleWebSocket(c) \/ CopyRecent(c) \/ SendRecent(c)
          \/ WriteLog(c) \/ WriterEnds(c)
          \/ RequestRecentLogs(c) \/ updateClientFilters(c)
          \/ Disconnect(c) \/ Leave(c) \/ CloseSend(c)

StreamSpec == StreamInit /\ [][StreamNext]_streamVars
-----------------------------------------------------------------------------
\* A client in the map has an open channel, whoever closes channels: so the
\* distribution of entries never panics, and the clean-up closes none twice.
ListedOpen == \A c \in clients : cl[c].open

\* A listed client misses no entry it wants between those it was sent first and those
\* distributed since, but for what found a channel full or the connection down.
NothingMissed ==
  \A c \in clients : cl[c].recents = "none" /\ cl[c].since # 0 =>
    \A e \in cl[c].since .. Len(logged) : Wants(c, e) =>
      e \in cl[c].had \cup Range(cl[c].send) \cup Range(logChannel) \cup lost

\* The streamer serves its clients: it can send to every client in its map, whichever
\* of the reader, the clean-up and Stop closes channels, and a client misses nothing
\* but what found a channel full.
ClientsServed == ListedOpen /\ NothingMissed
=============================================================================
