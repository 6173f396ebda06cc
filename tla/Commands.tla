-------------------------------- MODULE Commands --------------------------------
(***************************************************************************)
(* The suites of commands: for each command, how many arguments are        *)
(* accepted, the types its handler is declared with, and which of the      *)
(* Responses it answers with.  A command whose handler takes the arguments *)
(* as they are (Raw) converts them itself, and its response tells so.      *)
(***************************************************************************)
EXTENDS Arguments, TLC

Typed(types, form) ==
  [least |-> Len(types), most |-> Len(types), types |-> types, form |-> form]
Raw(least, most, form) == [least |-> least, most |-> most, types |-> <<>>, form |-> form]

(* maximumArgsRequired() of a command that takes a list: 0xFF.             *)
AnyNumber == 255

(* The first of two commands of the same name is found.                    *)
Then(first, second) == first @@ second

Builtin == [help |-> Raw(1, 1, "help"), list |-> Raw(0, 0, "list")]

-----------------------------------------------------------------------------
(* ble                                                                     *)
BLECommands == [
  shutdown |-> Typed(<<>>, "reports"), init |-> Typed(<<>>, "init"),
  reset |-> Typed(<<>>, "reports"), getVersion |-> Typed(<<>>, "reportsScalar"),
  createFilesystem |-> Typed(<<>>, "createFilesystem")]

-----------------------------------------------------------------------------
(* gap, whatever the version                                               *)
GapIdentity == [
  setAddress |-> Typed(<<Named(AddressType_t), MacAddress_t>>, "reports"),
  getAddress |-> Typed(<<>>, "getAddress"),
  getMinAdvertisingInterval |-> Typed(<<>>, "succeedsWithScalar"),
  getMinNonConnectableAdvertisingInterval |-> Typed(<<>>, "succeedsWithScalar"),
  getMaxAdvertisingInterval |-> Typed(<<>>, "succeedsWithScalar"),
  setDeviceName |-> Raw(1, 1, "reports"), getDeviceName |-> Typed(<<>>, "reportsScalar")]

GapAppearanceAndWhitelist == [
  setAppearance |-> Typed(<<Named(Appearance_t)>>, "reports"),
  getAppearance |-> Typed(<<>>, "reportsScalar"),
  getMaxWhitelistSize |-> Typed(<<>>, "succeedsWithScalar"),
  getWhitelist |-> Typed(<<>>, "getWhitelist"),
  setWhitelist |-> Raw(0, AnyNumber, "checks")]

GapPrivacy == [
  enablePrivacy |-> Typed(<<Named(bool)>>, "reports"),
  setPeripheralPrivacyConfiguration |->
    Typed(<<Named(bool), Named(PeripheralResolution_t)>>, "reports"),
  getPeripheralPrivacyConfiguration |-> Typed(<<>>, "reportsObject"),
  setCentralPrivacyConfiguration |->
    Typed(<<Named(bool), Named(CentralResolution_t)>>, "reports")]

GapPhy == [
  readPhy |-> Typed(<<uint16_t>>, "readPhy"),
  setPhy |-> Typed(<<uint16_t, uint8_t, uint8_t, uint8_t>>, "reports"),
  setPreferedPhys |-> Typed(<<uint8_t, uint8_t>>, "reports"),
  useVersion |-> Typed(<<uint8_t>>, "useVersion")]

(* Not in the table: getCentralPrivacyConfiguration.                       *)
_commonCommandHandlers ==
  Then(GapIdentity, Then(GapAppearanceAndWhitelist, Then(GapPrivacy, GapPhy)))

-----------------------------------------------------------------------------
(* gap, version 1                                                          *)
V1Connect == [
  stopAdvertising |-> Typed(<<>>, "reports"), stopScan |-> Typed(<<>>, "reports"),
  connect |-> Raw(11, 11, "connect")]

V1Connections == [
  waitForConnection |-> Typed(<<uint16_t>>, "waitForConnection"),
  disconnect |-> Typed(<<uint16_t, Named(DisconnectionReason_t)>>, "disconnect")]

V1ConnectionParams == [
  getPreferredConnectionParams |-> Typed(<<>>, "reportsObject"),
  setPreferredConnectionParams |-> Typed(<<ConnectionParams_t>>, "reports"),
  updateConnectionParams |-> Typed(<<>>, "notImplemented"),
  setTxPower |-> Typed(<<int8_t>>, "reports"),
  getPermittedTxPowerValues |-> Typed(<<>>, "getPermittedTxPowerValues"),
  getState |-> Typed(<<>>, "succeedsWithObject"),
  setAdvertisingType |-> Typed(<<Named(AdvertisingType_t)>>, "succeeds"),
  setAdvertisingInterval |-> Typed(<<uint16_t>>, "succeeds"),
  setAdvertisingTimeout |-> Typed(<<uint16_t>>, "succeeds"),
  startAdvertising |-> Typed(<<>>, "reports")]

V1Payloads == [
  clearAdvertisingPayload |-> Typed(<<>>, "succeeds"),
  accumulateAdvertisingPayload |-> Raw(2, AnyNumber, "checks"),
  updateAdvertisingPayload |-> Raw(2, AnyNumber, "checks"),
  setAdvertisingPayload |-> Typed(<<>>, "notImplemented"),
  getAdvertisingPayload |-> Typed(<<>>, "getAdvertisingPayload"),
  accumulateScanResponse |-> Raw(2, AnyNumber, "checks"),
  clearScanResponse |-> Typed(<<>>, "succeeds")]

V1Scan == [
  setScanParams |-> Typed(<<uint16_t, uint16_t, uint16_t, uint16_t>>, "reports"),
  setScanInterval |-> Typed(<<uint16_t>>, "reports"),
  setScanWindow |-> Typed(<<uint16_t>>, "reports"),
  setScanTimeout |-> Typed(<<uint16_t>>, "reports"),
  setActiveScanning |-> Typed(<<Named(bool)>>, "reports"),
  startScan |-> Raw(2, 2, "startScan")]

V1Modes == [
  initRadioNotification |-> Typed(<<>>, "notImplemented"),
  getAdvertisingParams |-> Typed(<<>>, "succeedsWithObject"),
  setAdvertisingParams |-> Typed(<<Named(AdvertisingType_t), uint16_t, uint16_t>>, "succeeds"),
  setAdvertisingPolicyMode |-> Typed(<<Named(AdvertisingPolicyMode_t)>>, "reports"),
  setScanningPolicyMode |-> Typed(<<Named(ScanningPolicyMode_t)>>, "reports"),
  setInitiatorPolicyMode |-> Typed(<<Named(InitiatorPolicyMode_t)>>, "reports"),
  getAdvertisingPolicyMode |-> Typed(<<>>, "succeedsWithScalar"),
  getScanningPolicyMode |-> Typed(<<>>, "succeedsWithScalar"),
  getInitiatorPolicyMode |-> Typed(<<>>, "succeedsWithScalar")]

GapV1Commands ==
  Then(V1Connect, Then(V1Connections, Then(V1ConnectionParams,
    Then(V1Payloads, Then(V1Scan, V1Modes)))))

-----------------------------------------------------------------------------
(* gap, version 2                                                          *)
V2AdvertisingSets == [
  getMaxAdvertisingSetNumber |-> Typed(<<>>, "succeedsWithScalar"),
  getMaxAdvertisingDataLength |-> Typed(<<>>, "succeedsWithScalar"),
  createAdvertisingSet |-> Typed(<<>>, "reportsScalar"),
  destroyAdvertisingSet |-> Typed(<<uint8_t>>, "reports"),
  setAdvertisingParameters |-> Typed(<<uint8_t>>, "reports"),
  setAdvertisingPayload |-> Typed(<<uint8_t, RawData_t>>, "reports"),
  setAdvertisingScanResponse |-> Typed(<<uint8_t, RawData_t>>, "reports"),
  startAdvertising |-> Typed(<<uint8_t, adv_duration_t, uint8_t>>, "reports"),
  stopAdvertising |-> Typed(<<uint8_t>>, "reports"),
  isAdvertisingActive |-> Typed(<<uint8_t>>, "succeedsWithScalar")]

V2PeriodicAdvertising == [
  setPeriodicAdvertisingParameters |->
    Typed(<<uint8_t, periodic_interval_t, periodic_interval_t, Named(bool)>>, "reports"),
  setPeriodicAdvertisingPayload |-> Typed(<<uint8_t, RawData_t>>, "reports"),
  startPeriodicAdvertising |-> Typed(<<uint8_t>>, "reports"),
  stopPeriodicAdvertising |-> Typed(<<uint8_t>>, "reports"),
  isPeriodicAdvertisingActive |-> Typed(<<uint8_t>>, "succeedsWithScalar"),
  setScanParameters |-> Typed(<<>>, "reports"),
  startScan |-> Typed(<<scan_duration_t, Named(duplicates_filter_t), scan_period_t>>, "reports"),
  stopScan |-> Typed(<<>>, "reports")]

V2Sync == [
  createSync |-> Typed(<<Named(peer_address_type_t), MacAddress_t, uint8_t, uint16_t,
                         sync_timeout_t>>, "reports"),
  createSyncFromList |-> Typed(<<uint16_t, sync_timeout_t>>, "reports"),
  cancelCreateSync |-> Typed(<<>>, "reports"),
  terminateSync |-> Typed(<<uint16_t>>, "reports"),
  addDeviceToPeriodicAdvertiserList |->
    Typed(<<Named(peer_address_type_t), MacAddress_t, uint8_t>>, "reports"),
  removeDeviceFromPeriodicAdvertiserList |->
    Typed(<<Named(peer_address_type_t), MacAddress_t, uint8_t>>, "reports"),
  clearPeriodicAdvertiserList |-> Typed(<<>>, "reports"),
  getMaxPeriodicAdvertiserListSize |-> Typed(<<>>, "succeedsWithScalar")]

updateTypes == <<uint16_t, conn_interval_t, conn_interval_t, uint16_t, supervision_timeout_t>>
V2Connections == [
  connect |-> Typed(<<Named(peer_address_type_t), MacAddress_t>>, "reports"),
  cancelConnect |-> Typed(<<>>, "reports"),
  updateConnectionParameters |-> Typed(updateTypes, "reports"),
  manageConnectionParametersUpdateRequest |-> Typed(<<Named(bool)>>, "reports"),
  acceptConnectionParametersUpdate |-> Typed(updateTypes, "reports"),
  rejectConnectionParametersUpdate |-> Typed(<<uint16_t>>, "reports"),
  disconnect |-> Typed(<<uint16_t, Named(local_disconnection_reason_t)>>, "reports"),
  isFeatureSupported |->
    Typed(<<Named(controller_supported_features_t)>>, "succeedsWithScalar")]

GapV2Commands ==
  Then(V2AdvertisingSets, Then(V2PeriodicAdvertising, Then(V2Sync, V2Connections)))

(* The commands of gap that use_version() puts together.                   *)
GapCommands(v) ==
  Then(_commonCommandHandlers, IF v = 1 THEN GapV1Commands ELSE GapV2Commands)

-----------------------------------------------------------------------------
(* gattClient                                                              *)
Discoveries == [
  discoverAllServicesAndCharacteristics |->
    Typed(<<uint16_t>>, "discoverAllServicesAndCharacteristics")]
ServiceDiscoveries == [discoverAllServices |-> Typed(<<uint16_t>>, "discoverServices")]
ServiceDiscoveriesByUUID == [
  discoverPrimaryServicesByUUID |-> Typed(<<uint16_t, UUID>>, "discoverServices")]
CharacteristicDiscoveries == [
  findIncludedServices |-> Raw(3, 3, "notImplemented"),
  discoverCharacteristicsOfService |-> Raw(3, 3, "notImplemented"),
  discoverCharacteristicsByUUID |-> Raw(4, 4, "notImplemented"),
  discoverAllCharacteristicsDescriptors |->
    Typed(<<uint16_t, uint16_t, uint16_t>>, "discoverAllCharacteristicsDescriptors")]
Reads == [
  readCharacteristicValue |-> Typed(<<uint16_t, uint16_t>>, "readCharacteristic"),
  readUsingCharacteristicUUID |-> Raw(4, 4, "notImplemented"),
  readLongCharacteristicValue |-> Raw(2, 2, "notImplemented"),
  readMultipleCharacteristicValues |-> Raw(2, 2, "notImplemented")]

attributeAndData == <<uint16_t, uint16_t, RawData_t>>
ClientWrites == [
  writeWithoutResponse |-> Typed(attributeAndData, "writeCharacteristic"),
  signedWriteWithoutResponse |-> Typed(attributeAndData, "writeCharacteristic"),
  write |-> Typed(attributeAndData, "writeCharacteristic"),
  writeLong |-> Raw(3, 3, "notImplemented"), reliableWrite |-> Raw(3, 3, "notImplemented"),
  readCharacteristicDescriptor |-> Typed(<<uint16_t, uint16_t>>, "readCharacteristic"),
  readLongCharacteristicDescriptor |-> Raw(2, 2, "notImplemented")]
DescriptorWrites == [
  writeCharacteristicDescriptor |-> Typed(attributeAndData, "writeCharacteristic"),
  writeLongCharacteristicDescriptor |-> Raw(3, 3, "notImplemented"),
  listenHVX |-> Typed(<<uint16_t>>, "listenHVX")]

GattClientCommands ==
  Then(Discoveries, Then(ServiceDiscoveries, Then(ServiceDiscoveriesByUUID,
    Then(CharacteristicDiscoveries, Then(Reads, Then(ClientWrites, DescriptorWrites))))))

-----------------------------------------------------------------------------
(* gattServer                                                              *)
Characteristics == [
  declareService |-> Typed(<<UUID>>, "reports"),
  declareCharacteristic |-> Typed(<<UUID>>, "reports"),
  setCharacteristicValue |-> Typed(<<RawData_t>>, "reports"),
  setCharacteristicSecurity |-> Typed(<<Named(SecurityMode_t)>>, "reports"),
  setCharacteristicProperties |-> Raw(0, AnyNumber, "checks")]
Descriptors == [
  setCharacteristicVariableLength |-> Typed(<<Named(bool)>>, "reports"),
  setCharacteristicMaxLength |-> Typed(<<uint16_t>>, "reports"),
  declareDescriptor |-> Typed(<<UUID>>, "reports"),
  setDescriptorValue |-> Typed(<<RawData_t>>, "reports"),
  setDescriptorVariableLength |-> Typed(<<Named(bool)>>, "reports"),
  setDescriptorMaxLength |-> Typed(<<uint16_t>>, "reports")]
CommitCommands == [
  commitService |-> Typed(<<>>, "commitService"),
  cancelServiceDeclaration |-> Typed(<<>>, "reports")]
Attributes == [
  read |-> Raw(1, 2, "readAttribute"), write |-> Raw(2, 3, "checks"),
  waitForDataWritten |-> Typed(<<uint16_t, uint16_t, uint16_t>>, "waitForDataWritten")]

GattServerCommands == Then(Characteristics, Then(Descriptors, Then(CommitCommands, Attributes)))

-----------------------------------------------------------------------------
(* securityManager                                                         *)
Bonding == [
  init |-> Raw(6, 6, "checks"), setDatabaseFilepath |-> Raw(1, 1, "reports"),
  getAddressesFromBondTable |-> Typed(<<uint8_t>>, "getAddressesFromBondTable")]
BondingState == [
  preserveBondingStateOnReset |-> Typed(<<Named(bool)>>, "reports"),
  purgeAllBondingState |-> Typed(<<>>, "reports"),
  generateWhitelistFromBondTable |-> Typed(<<>>, "generateWhitelistFromBondTable")]
PairingRequests == [
  setPairingRequestAuthorisation |-> Typed(<<Named(bool)>>, "reports")]
Pairing == [
  waitForEvent |-> Typed(<<uint16_t, uint16_t>>, "waitForEvent"),
  acceptPairingRequestAndWait |-> Typed(<<uint16_t, uint16_t>>, "pairAndWait"),
  rejectPairingRequest |-> Typed(<<uint16_t>>, "reports"),
  enterConfirmationAndWait |-> Typed(<<uint16_t, Named(bool), uint16_t>>, "pairAndWait")]
PairingFeatures == [
  enterPasskeyAndWait |-> Typed(<<uint16_t, SecurityManagerPasskey_t, uint16_t>>, "pairAndWait"),
  requestPairingAndWait |-> Typed(<<uint16_t, uint16_t, uint16_t>>, "pairAndWait"),
  allowLegacyPairing |-> Typed(<<Named(bool)>>, "reports"),
  getSecureConnectionsSupport |-> Typed(<<>>, "reportsScalar"),
  setIoCapability |-> Typed(<<Named(SecurityIOCapabilities_t)>>, "reports")]
LinkSecurity == [
  setDisplayPasskey |-> Typed(<<SecurityManagerPasskey_t>>, "reports"),
  setLinkEncryptionAndWait |->
    Typed(<<uint16_t, Named(link_encryption_t), uint16_t>>, "pairAndWait")]

SecurityManagerCommands ==
  Then(Bonding, Then(BondingState, Then(PairingRequests, Then(Pairing,
    Then(PairingFeatures, LinkSecurity)))))

-----------------------------------------------------------------------------
(* The suites of parameters                                                *)
AdvertisingParameters == [
  reset |-> Typed(<<>>, "succeeds"), setType |-> Typed(<<Named(advertising_type_t)>>, "succeeds"),
  setPrimaryInterval |-> Typed(<<adv_interval_t, adv_interval_t>>, "succeeds"),
  setPrimaryChannels |-> Typed(<<Named(bool), Named(bool), Named(bool)>>, "succeeds"),
  setOwnAddressType |-> Typed(<<Named(own_address_type_t)>>, "succeeds"),
  setFilter |-> Typed(<<Named(advertising_filter_policy_t)>>, "succeeds"),
  setPhy |-> Typed(<<Named(phy_t), Named(phy_t)>>, "succeeds"),
  setTxPower |-> Typed(<<int8_t>>, "succeeds"),
  setSecondaryMaxSkip |-> Typed(<<uint8_t>>, "succeeds"),
  setScanRequestNotification |-> Typed(<<Named(bool)>>, "succeeds"),
  setUseLegacyPDU |-> Typed(<<Named(bool)>>, "succeeds"),
  includeTxPowerInHeader |-> Typed(<<Named(bool)>>, "succeeds"),
  setAnonymousAdvertising |-> Typed(<<Named(bool)>>, "succeeds")]

ScanParameters == [
  reset |-> Typed(<<>>, "succeeds"),
  setOwnAddressType |-> Typed(<<Named(own_address_type_t)>>, "succeeds"),
  setFilter |-> Typed(<<Named(scanning_filter_policy_t)>>, "succeeds"),
  setPhys |-> Typed(<<Named(bool), Named(bool)>>, "succeeds"),
  set1mPhyConfiguration |-> Typed(<<scan_interval_t, scan_window_t, Named(bool)>>, "succeeds"),
  setCodedPhyConfiguration |-> Typed(<<scan_interval_t, scan_window_t, Named(bool)>>, "succeeds")]

ConnectionParameters == [
  reset |-> Typed(<<>>, "succeeds"),
  setScanParameters |-> Typed(<<Named(phy_t), conn_interval_t, conn_interval_t>>, "succeeds"),
  setConnectionParameters |->
    Typed(<<Named(phy_t), conn_interval_t, conn_interval_t, uint16_t, supervision_timeout_t>>,
          "succeeds"),
  setOwnAddressType |-> Typed(<<Named(own_address_type_t)>>, "succeeds"),
  setFilterPolicy |-> Typed(<<Named(initiator_filter_policy_t)>>, "succeeds"),
  togglePhy |-> Typed(<<Named(bool), Named(bool), Named(bool)>>, "succeeds"),
  disablePhy |-> Typed(<<Named(phy_t)>>, "succeeds"),
  enablePhy |-> Typed(<<Named(phy_t)>>, "succeeds")]

-----------------------------------------------------------------------------
(* getCommand(): the commands of a suite, the builtin ones first.          *)
Suite(handlers) == Then(Builtin, handlers)

Suites(v) == [
  ble |-> Suite(BLECommands), gap |-> Suite(GapCommands(v)),
  gattClient |-> Suite(GattClientCommands), gattServer |-> Suite(GattServerCommands),
  securityManager |-> Suite(SecurityManagerCommands), advParams |-> Suite(AdvertisingParameters),
  scanParams |-> Suite(ScanParameters), connectionParams |-> Suite(ConnectionParameters)]

(* By the version of gap that is in use.                                   *)
commands == <<Suites(1), Suites(2)>>
=============================================================================
