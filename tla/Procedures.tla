----------------------------- MODULE Procedures -----------------------------
(***************************************************************************)
(* The procedures of source/Commands as CommandExecution sees them: what   *)
(* doStart() may return, whether a callback of the stack may end the       *)
(* procedure, whether its destructor takes its callbacks back, and how     *)
(* often terminate() is called when its timeout comes.                     *)
(***************************************************************************)

Class(starts, answers, detaches, terminates) ==
  [starts |-> starts, answers |-> answers, detaches |-> detaches, terminates |-> terminates]

(* BLE::init() may call back before it returns, which like a doStart() that fails
   ends the procedure within start(); nothing takes the callback back.     *)
InitProcedure == Class(BOOLEAN, TRUE, FALSE, 1)

ConnectionProcedure_NotDetached == Class({TRUE}, TRUE, FALSE, 1)  \* mutant: no detach()
ConnectionProcedure == Class({TRUE}, TRUE, TRUE, 1)
WaitForConnectionProcedure == Class({TRUE}, TRUE, TRUE, 1)
DisconnectionProcedure == Class(BOOLEAN, TRUE, TRUE, 1)

(* The callback is a static function that does nothing once self is NULL.  *)
ScanProcedure == Class(BOOLEAN, FALSE, TRUE, 1)

ReadPhyProcedure == Class(BOOLEAN, TRUE, TRUE, 1)

DiscoverAllServicesAndCharacteristicsProcedure == Class(BOOLEAN, TRUE, TRUE, 1)

(* onServiceDiscoveryTermination() is taken back, whenServiceDiscovered() is not
   and the discovery goes on.                                              *)
DiscoverAllServicesProcedure == Class(BOOLEAN, TRUE, FALSE, 1)
DiscoverServicesByUUIDProcedure == Class(BOOLEAN, TRUE, FALSE, 1)

DiscoverAllCharacteristicsDescriptorsProcedure == Class(BOOLEAN, TRUE, TRUE, 1)
ReadProcedure == Class(BOOLEAN, TRUE, TRUE, 1)
WriteProcedure == Class(BOOLEAN, TRUE, TRUE, 1)

(* It is doWhenTimeout(), the only end of this procedure, that detaches.   *)
ListenHVXProcedure == Class({TRUE}, FALSE, TRUE, 1)

WaitForDataWrittenProcedure == Class({TRUE}, TRUE, TRUE, 1)

(* doWhenTimeout() calls terminate(), and so does whenTimeout() after it.  *)
GenerateWhitelistFromBondTableProcedure == Class(BOOLEAN, TRUE, TRUE, 2)

BasePairingProcedure == Class({TRUE}, TRUE, TRUE, 1)
AcceptPairingRequestAndWaitProcedure == Class(BOOLEAN, TRUE, TRUE, 1)
EnterConfirmationAndWaitProcedure == Class(BOOLEAN, TRUE, TRUE, 1)
EnterPasskeyAndWaitProcedure == Class(BOOLEAN, TRUE, TRUE, 1)
RequestPairingAndWaitProcedure == Class(BOOLEAN, TRUE, TRUE, 1)
SetLinkEncryptionAndWaitProcedure == Class(BOOLEAN, TRUE, TRUE, 1)

(* The procedures that keep their part of the contract of AsyncProcedure.  *)
SoundProcedures ==
  [connect |-> ConnectionProcedure,
   waitForConnection |-> WaitForConnectionProcedure,
   disconnect |-> DisconnectionProcedure,
   startScan |-> ScanProcedure,
   readPhy |-> ReadPhyProcedure,
   discoverAllServicesAndCharacteristics |-> DiscoverAllServicesAndCharacteristicsProcedure,
   discoverAllCharacteristicsDescriptors |-> DiscoverAllCharacteristicsDescriptorsProcedure,
   read |-> ReadProcedure,
   write |-> WriteProcedure,
   listenHVX |-> ListenHVXProcedure,
   waitForDataWritten |-> WaitForDataWrittenProcedure,
   waitForEvent |-> BasePairingProcedure,
   acceptPairingRequestAndWait |-> AcceptPairingRequestAndWaitProcedure,
   enterConfirmationAndWait |-> EnterConfirmationAndWaitProcedure,
   enterPasskeyAndWait |-> EnterPasskeyAndWaitProcedure,
   requestPairingAndWait |-> RequestPairingAndWaitProcedure,
   setLinkEncryptionAndWait |-> SetLinkEncryptionAndWaitProcedure]

(* The procedures the stack may call back after they are deleted.          *)
ForgetfulProcedures ==
  [init |-> InitProcedure,
   discoverAllServices |-> DiscoverAllServicesProcedure,
   discoverPrimaryServicesByUUID |-> DiscoverServicesByUUIDProcedure]

(* The procedure that is deleted twice.                                    *)
EagerProcedures == [generateWhitelistFromBondTable |-> GenerateWhitelistFromBondTableProcedure]

AllProcedures ==
  [p \in DOMAIN SoundProcedures \cup DOMAIN ForgetfulProcedures \cup DOMAIN EagerProcedures |->
     IF p \in DOMAIN SoundProcedures THEN SoundProcedures[p]
     ELSE IF p \in DOMAIN ForgetfulProcedures THEN ForgetfulProcedures[p]
     ELSE EagerProcedures[p]]
=============================================================================
