--------------------------------- MODULE Names ---------------------------------
(***************************************************************************)
(* The names of the values of enumerations, one table for each             *)
(* SerializerDescription.  Serializer<T> looks a value, or the text that   *)
(* was typed, up in the rows from the first to the last.                   *)
(***************************************************************************)
EXTENDS Naturals, Sequences

Row(value, name) == [value |-> value, name |-> name]
Table(pairs) == [i \in DOMAIN pairs |-> Row(pairs[i][1], pairs[i][2])]

(* Most values have the name of their enumerator.                          *)
Enumeration(names) == [i \in DOMAIN names |-> Row(names[i], names[i])]

First(rows, Test(_)) ==
  {rows[i] : i \in {i \in DOMAIN rows : Test(rows[i]) /\ \A j \in 1 .. i - 1 : ~Test(rows[j])}}

valueOf(rows, name) == LET Test(row) == row.name = name IN {row.value : row \in First(rows, Test)}
nameOf(rows, value) == LET Test(row) == row.value = value IN {row.name : row \in First(rows, Test)}

-----------------------------------------------------------------------------
(* BLECommonSerializer.h                                                   *)
ble_error_t == Table(<<
  <<"BLE_ERROR_NONE", "BLE_ERROR_NONE">>,
  <<"BLE_ERROR_BUFFER_OVERFLOW", "BLE_ERROR_BUFFER_OVERFLOW">>,
  <<"BLE_ERROR_NOT_IMPLEMENTED", "BLE_ERROR_NOT_IMPLEMENTED">>,
  <<"BLE_ERROR_PARAM_OUT_OF_RANGE", "BLE_ERROR_PARAM_OUT_OF_RANGE">>,
  <<"BLE_ERROR_INVALID_PARAM", "BLE_ERROR_INVALID_PARAM">>,
  <<"BLE_STACK_BUSY", "BLE_STACK_BUSY">>,
  <<"BLE_ERROR_INVALID_STATE", "BLE_ERROR_INVALID_STATE">>,
  <<"BLE_ERROR_NO_MEM", "BLE_ERROR_NO_MEM">>,
  <<"BLE_ERROR_OPERATION_NOT_PERMITTED", "BLE_ERROR_OPERATION_NOT_PERMITTED">>,
  <<"BLE_ERROR_INITIALIZATION_INCOMPLETE", "BLE_ERROR_INITIALIZATION_INCOMPLETE">>,
  <<"BLE_ERROR_ALREADY_INITIALIZED", "BLE_ERROR_ALREADY_INITIALIZED ">>,
  <<"BLE_ERROR_UNSPECIFIED", "BLE_ERROR_UNSPECIFIED">>>>)
HVXType_t == Enumeration(<<"BLE_HVX_NOTIFICATION", "BLE_HVX_INDICATION">>)

(* GapSerializer.h                                                         *)
phy_t == Enumeration(<<"LE_1M", "LE_2M", "LE_CODED", "NONE">>)
AddressType_t == Table(<<
  <<"PUBLIC", "ADDR_TYPE_PUBLIC">>, <<"RANDOM_STATIC", "ADDR_TYPE_RANDOM_STATIC">>,
  <<"RANDOM_PRIVATE_RESOLVABLE", "ADDR_TYPE_RANDOM_PRIVATE_RESOLVABLE">>,
  <<"RANDOM_PRIVATE_NON_RESOLVABLE", "ADDR_TYPE_RANDOM_PRIVATE_NON_RESOLVABLE">>,
  <<"PUBLIC", "PUBLIC">>, <<"RANDOM_STATIC", "RANDOM_STATIC">>,
  <<"RANDOM_PRIVATE_RESOLVABLE", "RANDOM_PRIVATE_RESOLVABLE">>,
  <<"RANDOM_PRIVATE_NON_RESOLVABLE", "RANDOM_PRIVATE_NON_RESOLVABLE">>>>)
Role_t == Enumeration(<<"PERIPHERAL", "CENTRAL">>)
DisconnectionReason_t == Enumeration(<<
  "CONNECTION_TIMEOUT", "REMOTE_USER_TERMINATED_CONNECTION",
  "REMOTE_DEV_TERMINATION_DUE_TO_LOW_RESOURCES", "REMOTE_DEV_TERMINATION_DUE_TO_POWER_OFF",
  "LOCAL_HOST_TERMINATED_CONNECTION", "CONN_INTERVAL_UNACCEPTABLE">>)
AdvertisingPolicyMode_t == Enumeration(<<
  "ADV_POLICY_IGNORE_WHITELIST", "ADV_POLICY_FILTER_SCAN_REQS", "ADV_POLICY_FILTER_CONN_REQS",
  "ADV_POLICY_FILTER_ALL_REQS">>)
ScanningPolicyMode_t == Enumeration(<<
  "SCAN_POLICY_IGNORE_WHITELIST", "SCAN_POLICY_FILTER_ALL_ADV">>)
InitiatorPolicyMode_t == Enumeration(<<
  "INIT_POLICY_IGNORE_WHITELIST", "INIT_POLICY_FILTER_ALL_ADV">>)
PeripheralResolution_t == Enumeration(<<
  "DO_NOT_RESOLVE", "REJECT_NON_RESOLVED_ADDRESS", "PERFORM_PAIRING_PROCEDURE",
  "PERFORM_AUTHENTICATION_PROCEDURE">>)
CentralResolution_t == Enumeration(<<
  "DO_NOT_RESOLVE", "RESOLVE_AND_FILTER", "RESOLVE_AND_FORWARD">>)
advertising_type_t == Enumeration(<<
  "CONNECTABLE_UNDIRECTED", "CONNECTABLE_DIRECTED", "SCANNABLE_UNDIRECTED",
  "NON_CONNECTABLE_UNDIRECTED", "CONNECTABLE_DIRECTED_LOW_DUTY">>)
own_address_type_t == Enumeration(<<
  "PUBLIC", "RANDOM", "RESOLVABLE_PRIVATE_ADDRESS_PUBLIC_FALLBACK",
  "RESOLVABLE_PRIVATE_ADDRESS_RANDOM_FALLBACK">>)
advertising_filter_policy_t == Enumeration(<<
  "NO_FILTER", "FILTER_SCAN_REQUESTS", "FILTER_CONNECTION_REQUEST",
  "FILTER_SCAN_AND_CONNECTION_REQUESTS">>)
scanning_filter_policy_t == Enumeration(<<
  "NO_FILTER", "FILTER_ADVERTISING", "NO_FILTER_INCLUDE_UNRESOLVABLE_DIRECTED",
  "FILTER_ADVERTISING_INCLUDE_UNRESOLVABLE_DIRECTED">>)
initiator_filter_policy_t == Enumeration(<<"NO_FILTER", "USE_WHITE_LIST">>)
duplicates_filter_t == Enumeration(<<"DISABLE", "ENABLE", "PERIODIC_RESET">>)
peer_address_type_t == Enumeration(<<
  "PUBLIC", "RANDOM", "PUBLIC_IDENTITY", "RANDOM_STATIC_IDENTITY", "ANONYMOUS">>)
local_disconnection_reason_t == Enumeration(<<
  "USER_TERMINATION", "AUTHENTICATION_FAILURE", "LOW_RESOURCES",
  "PAIRING_WITH_UNIT_KEY_NOT_SUPPORTED", "POWER_OFF", "UNACCEPTABLE_CONNECTION_PARAMETERS",
  "UNSUPPORTED_REMOTE_FEATURE">>)
controller_supported_features_t == Enumeration(<<
  "LE_EXTENDED_ADVERTISING", "LE_2M_PHY", "CHANNEL_SELECTION_ALGORITHM_2",
  "CONNECTION_PARAMETERS_REQUEST_PROCEDURE", "EXTENDED_REJECT_INDICATION",
  "EXTENDED_SCANNER_FILTER_POLICIES", "LE_CODED_PHY", "LE_DATA_PACKET_LENGTH_EXTENSION",
  "LE_ENCRYPTION", "LE_PERIODIC_ADVERTISING", "LE_PING", "LE_POWER_CLASS", "LL_PRIVACY",
  "SLAVE_INITIATED_FEATURES_EXCHANGE", "STABLE_MODULATION_INDEX_RECEIVER",
  "STABLE_MODULATION_INDEX_TRANSMITTER">>)
advertising_data_status_t == Enumeration(<<
  "COMPLETE", "INCOMPLETE_MORE_DATA", "INCOMPLETE_DATA_TRUNCATED">>)

(* GapAdvertisingDataSerializer.h                                          *)
Appearance_t == Enumeration(<<
  "UNKNOWN", "GENERIC_PHONE", "GENERIC_COMPUTER", "GENERIC_WATCH", "WATCH_SPORTS_WATCH",
  "GENERIC_CLOCK", "GENERIC_DISPLAY", "GENERIC_REMOTE_CONTROL", "GENERIC_EYE_GLASSES",
  "GENERIC_TAG", "GENERIC_KEYRING", "GENERIC_MEDIA_PLAYER", "GENERIC_BARCODE_SCANNER",
  "GENERIC_THERMOMETER", "THERMOMETER_EAR", "GENERIC_HEART_RATE_SENSOR",
  "HEART_RATE_SENSOR_HEART_RATE_BELT", "GENERIC_BLOOD_PRESSURE", "BLOOD_PRESSURE_ARM",
  "BLOOD_PRESSURE_WRIST", "HUMAN_INTERFACE_DEVICE_HID", "KEYBOARD", "MOUSE", "JOYSTICK",
  "GAMEPAD", "DIGITIZER_TABLET", "CARD_READER", "DIGITAL_PEN", "BARCODE_SCANNER",
  "GENERIC_GLUCOSE_METER", "GENERIC_RUNNING_WALKING_SENSOR", "RUNNING_WALKING_SENSOR_IN_SHOE",
  "RUNNING_WALKING_SENSOR_ON_SHOE", "RUNNING_WALKING_SENSOR_ON_HIP", "GENERIC_CYCLING",
  "CYCLING_CYCLING_COMPUTER", "CYCLING_SPEED_SENSOR", "CYCLING_CADENCE_SENSOR",
  "CYCLING_POWER_SENSOR", "CYCLING_SPEED_AND_CADENCE_SENSOR", "PULSE_OXIMETER_GENERIC",
  "PULSE_OXIMETER_FINGERTIP", "PULSE_OXIMETER_WRIST_WORN", "OUTDOOR_GENERIC",
  "OUTDOOR_LOCATION_DISPLAY_DEVICE", "OUTDOOR_LOCATION_AND_NAVIGATION_DISPLAY_DEVICE",
  "OUTDOOR_LOCATION_POD", "OUTDOOR_LOCATION_AND_NAVIGATION_POD">>)
DataType_t == Enumeration(<<
  "FLAGS", "INCOMPLETE_LIST_16BIT_SERVICE_IDS", "COMPLETE_LIST_16BIT_SERVICE_IDS",
  "INCOMPLETE_LIST_32BIT_SERVICE_IDS", "COMPLETE_LIST_32BIT_SERVICE_IDS",
  "INCOMPLETE_LIST_128BIT_SERVICE_IDS", "COMPLETE_LIST_128BIT_SERVICE_IDS",
  "LIST_128BIT_SOLICITATION_IDS", "SHORTENED_LOCAL_NAME", "COMPLETE_LOCAL_NAME", "TX_POWER_LEVEL",
  "DEVICE_ID", "SLAVE_CONNECTION_INTERVAL_RANGE", "SERVICE_DATA", "APPEARANCE",
  "ADVERTISING_INTERVAL", "MANUFACTURER_SPECIFIC_DATA">>)
Flags_t == Enumeration(<<
  "LE_LIMITED_DISCOVERABLE", "LE_GENERAL_DISCOVERABLE", "BREDR_NOT_SUPPORTED",
  "SIMULTANEOUS_LE_BREDR_C", "SIMULTANEOUS_LE_BREDR_H">>)

(* GapAdvertisingParamsSerializer.h                                        *)
AdvertisingType_t == Enumeration(<<
  "ADV_CONNECTABLE_UNDIRECTED", "ADV_CONNECTABLE_DIRECTED", "ADV_SCANNABLE_UNDIRECTED",
  "ADV_NON_CONNECTABLE_UNDIRECTED">>)

(* CharacteristicProperties.h, CharacteristicSecurity.h                    *)
Properties_t == Table(<<
  <<"BLE_GATT_CHAR_PROPERTIES_BROADCAST", "broadcast">>,
  <<"BLE_GATT_CHAR_PROPERTIES_READ", "read">>,
  <<"BLE_GATT_CHAR_PROPERTIES_WRITE_WITHOUT_RESPONSE", "writeWoResp">>,
  <<"BLE_GATT_CHAR_PROPERTIES_WRITE", "write">>, <<"BLE_GATT_CHAR_PROPERTIES_NOTIFY", "notify">>,
  <<"BLE_GATT_CHAR_PROPERTIES_INDICATE", "indicate">>,
  <<"BLE_GATT_CHAR_PROPERTIES_AUTHENTICATED_SIGNED_WRITES", "authSignedWrite">>>>)
SecurityMode_t == Enumeration(<<
  "SECURITY_MODE_NO_ACCESS", "SECURITY_MODE_ENCRYPTION_OPEN_LINK",
  "SECURITY_MODE_ENCRYPTION_NO_MITM", "SECURITY_MODE_ENCRYPTION_WITH_MITM",
  "SECURITY_MODE_SIGNED_NO_MITM", "SECURITY_MODE_SIGNED_WITH_MITM">>)

(* SecurityManagerSerialization.h                                          *)
SecurityIOCapabilities_t == Enumeration(<<
  "IO_CAPS_DISPLAY_ONLY", "IO_CAPS_DISPLAY_YESNO", "IO_CAPS_KEYBOARD_ONLY", "IO_CAPS_NONE",
  "IO_CAPS_KEYBOARD_DISPLAY">>)
SecurityCompletionStatus_t == Enumeration(<<
  "SEC_STATUS_SUCCESS", "SEC_STATUS_TIMEOUT", "SEC_STATUS_PDU_INVALID",
  "SEC_STATUS_PASSKEY_ENTRY_FAILED", "SEC_STATUS_OOB_NOT_AVAILABLE", "SEC_STATUS_AUTH_REQ",
  "SEC_STATUS_CONFIRM_VALUE", "SEC_STATUS_PAIRING_NOT_SUPP", "SEC_STATUS_ENC_KEY_SIZE",
  "SEC_STATUS_SMP_CMD_UNSUPPORTED", "SEC_STATUS_UNSPECIFIED", "SEC_STATUS_REPEATED_ATTEMPTS",
  "SEC_STATUS_INVALID_PARAMS", "SEC_STATUS_DHKEY_CHECK_FAILED", "SEC_STATUS_COMPARISON_FAILED">>)
link_encryption_t == Enumeration(<<
  "NOT_ENCRYPTED", "ENCRYPTION_IN_PROGRESS", "ENCRYPTED", "ENCRYPTED_WITH_MITM",
  "ENCRYPTED_WITH_SC_AND_MITM">>)

-----------------------------------------------------------------------------
bool == Table(<<<<TRUE, "true">>, <<FALSE, "false">>, <<TRUE, "1">>, <<FALSE, "0">>>>)

Tables == <<ble_error_t, HVXType_t, phy_t, AddressType_t, Role_t, DisconnectionReason_t,
  AdvertisingPolicyMode_t, ScanningPolicyMode_t, InitiatorPolicyMode_t, PeripheralResolution_t,
  CentralResolution_t, advertising_type_t, own_address_type_t, advertising_filter_policy_t,
  scanning_filter_policy_t, initiator_filter_policy_t, duplicates_filter_t, peer_address_type_t,
  local_disconnection_reason_t, controller_supported_features_t, advertising_data_status_t,
  Appearance_t, DataType_t, Flags_t, AdvertisingType_t, Properties_t, SecurityMode_t,
  SecurityIOCapabilities_t, SecurityCompletionStatus_t, link_encryption_t, bool>>

(* The host may give back what it read: the name that is printed for a value is one
   that is read as that value, and no name is printed for two values.      *)
RoundTrip ==
  \A t \in DOMAIN Tables : \A i \in DOMAIN Tables[t] :
    LET value == Tables[t][i].value IN
    \A name \in nameOf(Tables[t], value) : valueOf(Tables[t], name) = {value}
=============================================================================
