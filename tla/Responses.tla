------------------------------ MODULE Responses ------------------------------
(***************************************************************************)
(* What the commands of source/Commands write to their responses, as the   *)
(* Writes of ResponseStream.  An object or an array is written with one of *)
(* its scalar members, or two where they can differ in how they are        *)
(* written; commands whose handlers write alike share an entry.            *)
(***************************************************************************)
EXTENDS Sequences, FiniteSets

Inserts(names) == [n \in DOMAIN names |-> [insert |-> names[n]]]
Status(sc, message) == <<[status |-> sc, message |-> message]>>

success == Status("SUCCESS", "none")
successWith(message) == Status("SUCCESS", message)
faillure == Status("FAIL", "none")
faillureWith == Status("FAIL", "scalar")
invalidParameters == Status("INVALID_PARAMETERS", "scalar")
notImplemented == Status("COMMAND_NOT_IMPLEMENTED", "none")

result == Inserts(<<"result">>)
startArray == Inserts(<<"startArray">>)
endArray == Inserts(<<"endArray">>)
startObject == Inserts(<<"startObject">>)
endObject == Inserts(<<"endObject">>)
scalar == Inserts(<<"value">>)
member == Inserts(<<"key", "value">>)
object == startObject \o member \o member \o endObject

(* An array with no, one and two elements.                                 *)
Arrays(element) == {startArray \o elements \o endArray :
                      elements \in {<<>>, element, element \o element}}

Prefixed(prefix, writes) == {prefix \o w : w \in writes}

-----------------------------------------------------------------------------
(* A procedure that is waiting for its answer, and a command that needs none. *)

Reporting(answers, begins, reports, ends) ==
  [answers |-> answers, begins |-> begins, reports |-> reports, ends |-> ends]
Always(writes) == [first \in BOOLEAN |-> writes]
Never == Always({})
Procedure(answers, begin, ends) == Reporting(answers, {begin}, Never, Always(ends))
Handler(answers) == Reporting(answers, {}, Never, Never)

(* AsyncProcedure::doWhenTimeout()                                         *)
timeout == faillureWith

reportErrorOrSuccess == {faillureWith, success}
reportErrorOrResult(message) == {faillureWith, successWith(message)}

-----------------------------------------------------------------------------
(* Commands that answer at once                                            *)

succeeds == Handler({success})
succeedsWithScalar == Handler({successWith("scalar")})
succeedsWithObject == Handler({successWith("object")})
reports == Handler(reportErrorOrSuccess)
reportsScalar == Handler(reportErrorOrResult("scalar"))
reportsObject == Handler(reportErrorOrResult("object"))
unimplemented == Handler({notImplemented})

(* A command that converts its arguments itself.                           *)
checks == Handler(reportErrorOrSuccess \cup {invalidParameters})

(* getCommand() finds none of that name.                                   *)
invalidCommand == Handler({faillureWith})

createFilesystem == Handler({success, faillure})
useVersion == Handler({success, faillure})

(* connectionParams of a getter, addresses, lists of them.                 *)
getAddress == Handler({faillureWith, success \o result \o object})
getWhitelist == Handler({faillureWith} \cup Prefixed(success \o result, Arrays(object)))
getAddressesFromBondTable == getWhitelist
getPermittedTxPowerValues == Handler(Prefixed(success \o result, Arrays(scalar)))

help == Handler({invalidParameters, successWith("scalar")} \cup
  {success \o result \o startObject \o member \o Inserts(<<"key">>) \o args \o
   Inserts(<<"key">>) \o results \o endObject : args, results \in Arrays(scalar)})
list == Handler(Prefixed(success \o result, Arrays(scalar)))

serviceMember == startObject \o member \o Inserts(<<"key">>)
commitService == Handler({faillureWith} \cup
  {success \o result \o serviceMember \o characteristics \o endObject :
     characteristics \in UNION {Arrays(serviceMember \o descriptors \o endObject) :
                                  descriptors \in Arrays(object)}})

(* The status follows the result, which is under "result" as a status that is not
   set counts as success.                                                  *)
readAttribute == Handler({invalidParameters, faillureWith, result \o scalar \o success})

-----------------------------------------------------------------------------
(* Procedures that write once, when they end                               *)

init == Procedure({success}, <<>>, {faillureWith, success, timeout})

connected == success \o result \o startObject \o member \o Inserts(<<"key">>) \o object \o
             member \o endObject
connect == Procedure({invalidParameters, faillureWith}, <<>>,
                     {connected, faillure \o result \o object, timeout})
waitForConnection == Procedure({}, <<>>, {connected, timeout})
disconnect == Procedure({faillureWith}, <<>>, {success \o result \o object, timeout})

readCharacteristic == Procedure({faillureWith}, <<>>, {successWith("object"), timeout})
writeCharacteristic == Procedure({faillureWith, success}, <<>>, {successWith("object"), timeout})
waitForDataWritten == Procedure({}, <<>>, {successWith("object"), timeout})

-----------------------------------------------------------------------------
(* Procedures that write the elements of an array as they come             *)

(* The handler and doStart() both call success().                          *)
listenHVX == Reporting({}, {success \o success \o result \o startArray},
                       Always({object}), Always({endArray}))

(* AdvertisingDataSerializer: a scalar, a list of 16 bit service IDs, one of 32 bit
   whose elements are not committed, and then the raw data.                *)
fields == {scalar} \cup Arrays(scalar) \cup Arrays(Inserts(<<"format">>))
advertisingData ==
  {startObject \o Inserts(<<"key">>) \o field \o member \o endObject : field \in fields}
getAdvertisingPayload == Handler(Prefixed(success \o result, advertisingData))

(* A wrong duration is answered, and the handler goes on.                  *)
durations == {<<>>, invalidParameters}
startScan ==
  Reporting({invalidParameters} \cup
              {d \o w : d \in durations, w \in {faillureWith, invalidParameters}},
            {d \o success \o result \o startArray : d \in durations},
            Always({startObject \o member \o Inserts(<<"key">>) \o data \o member \o endObject :
                      data \in advertisingData}),
            Always({endArray}))

(* The array is open when the connection is lost or the time is over.      *)
discoverServices ==
  Reporting({faillureWith}, {result \o startArray}, Always({object}),
            Always({endArray \o success, result \o scalar \o faillure}))

(* The characteristics of a service are in an array of its own, which the next
   service ends.                                                           *)
beginService == startObject \o member \o Inserts(<<"key">>) \o startArray
endService == endArray \o endObject
discoverAllServicesAndCharacteristics ==
  Reporting({faillureWith}, {result \o startArray},
            [first \in BOOLEAN |->
               IF first THEN {beginService} ELSE {endService \o beginService, object}],
            [first \in BOOLEAN |->
               Prefixed(IF first THEN <<>> ELSE endService,
                        {endArray \o success, scalar \o faillure})])

discoverAllCharacteristicsDescriptors ==
  Reporting({invalidParameters, faillureWith, result \o startArray \o endArray \o success},
            {result \o startArray}, Always({object}),
            Always({endArray \o success} \cup {scalar \o endArray \o faillure}))

-----------------------------------------------------------------------------
(* Procedures that write the result before the status                      *)

readPhy == Procedure({faillureWith}, <<>>, {result \o success \o object, timeout})
readPhyUnanswered == Procedure({faillureWith}, <<>>, {timeout})

(* BLE_SM_TEST_ASSERT_RET                                                  *)
assertFailure == result \o scalar \o scalar \o scalar \o scalar \o faillureWith

generateWhitelistFromBondTable ==
  Procedure({result \o scalar \o faillure, assertFailure}, <<>>,
            {result \o scalar \o faillure} \cup Prefixed(success \o result, Arrays(object)))

pairingEnds == {success \o result \o object, result \o scalar \o faillure}
waitForEvent == Procedure({}, <<>>, pairingEnds)
pairAndWait == Procedure({assertFailure}, <<>>, pairingEnds)

-----------------------------------------------------------------------------
(* The commands that write one proper document, and those that may not, or put a
   failure under "result".  readPhy does as long as it is not answered.    *)
ProperResponses ==
  [succeeds |-> succeeds, succeedsWithScalar |-> succeedsWithScalar,
   succeedsWithObject |-> succeedsWithObject, reports |-> reports, reportsScalar |-> reportsScalar,
   reportsObject |-> reportsObject, notImplemented |-> unimplemented, checks |-> checks,
   invalidCommand |-> invalidCommand, createFilesystem |-> createFilesystem,
   useVersion |-> useVersion, getAddress |-> getAddress, getWhitelist |-> getWhitelist,
   getAddressesFromBondTable |-> getAddressesFromBondTable,
   getPermittedTxPowerValues |-> getPermittedTxPowerValues, help |-> help, list |-> list,
   commitService |-> commitService, readAttribute |-> readAttribute, init |-> init,
   connect |-> connect, waitForConnection |-> waitForConnection, disconnect |-> disconnect,
   readCharacteristic |-> readCharacteristic, writeCharacteristic |-> writeCharacteristic,
   waitForDataWritten |-> waitForDataWritten, listenHVX |-> listenHVX,
   readPhy |-> readPhyUnanswered]

OtherResponses ==
  [getAdvertisingPayload |-> getAdvertisingPayload, startScan |-> startScan,
   discoverServices |-> discoverServices,
   discoverAllServicesAndCharacteristics |-> discoverAllServicesAndCharacteristics,
   discoverAllCharacteristicsDescriptors |-> discoverAllCharacteristicsDescriptors,
   readPhy |-> readPhy, generateWhitelistFromBondTable |-> generateWhitelistFromBondTable,
   waitForEvent |-> waitForEvent, pairAndWait |-> pairAndWait]
=============================================================================
