--------------------------------- MODULE Events ---------------------------------
(***************************************************************************)
(* What the callbacks of ble::Gap::EventHandler print, each to a           *)
(* JSONEventStream of its own: the insertions, like those of Responses.    *)
(***************************************************************************)
EXTENDS Responses, Naturals

members(n) == [i \in 1 .. 2 * n |-> [insert |-> IF i % 2 = 1 THEN "key" ELSE "value"]]

(* "type" and "name", then the "value" if there is one.                    *)
event(value) == startObject \o members(2) \o value \o endObject
valueOfEvent(inserts) == Inserts(<<"key">>) \o startObject \o inserts \o endObject
Plain(n) == {event(valueOfEvent(members(n)))}

(* The members that the status or type of the event calls for.             *)
Optional(n) == {<<>>, members(n)}
Either(n, more) == {event(valueOfEvent(members(n) \o m)) : m \in Optional(more)}

onScanRequestReceived == Plain(3)
onAdvertisingEnd == Either(3, 1)
onAdvertisingReport ==
  {event(valueOfEvent(members(7) \o peer \o direct \o extended \o members(1))) :
     peer \in Optional(1), direct \in Optional(2),
     extended \in {<<>>, members(5), members(6)}}
onScanTimeout == {event(<<>>)}
onPeriodicAdvertisingSyncEstablished == Either(1, 7)
onPeriodicAdvertisingReport == Plain(5)
onPeriodicAdvertisingSyncLoss == Plain(1)

(* A connection that failed: the handler ends both objects and returns.    *)
connectionFailed ==
  startObject \o members(2) \o Inserts(<<"key">>) \o startObject \o members(1) \o
  endObject \o endObject
onConnectionComplete ==
  {connectionFailed} \cup
  {event(valueOfEvent(members(9) \o peer \o local)) : peer, local \in Optional(1)}

onUpdateConnectionParametersRequest == Plain(5)
onConnectionParametersUpdateComplete == Either(2, 3)
onDisconnectionComplete == Plain(2)
onReadPhy == Either(2, 2)
onPhyUpdateComplete == Either(2, 2)

EventHandler ==
  onScanRequestReceived \cup onAdvertisingEnd \cup onAdvertisingReport \cup onScanTimeout \cup
  onPeriodicAdvertisingSyncEstablished \cup onPeriodicAdvertisingReport \cup
  onPeriodicAdvertisingSyncLoss \cup onConnectionComplete \cup
  onUpdateConnectionParametersRequest \cup onConnectionParametersUpdateComplete \cup
  onDisconnectionComplete \cup onReadPhy \cup onPhyUpdateComplete
=============================================================================
