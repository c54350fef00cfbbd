---------------------------- MODULE MCHUMessages ----------------------------
(* Values of the constants of HUMessages for TLC: one media channel, and   *)
(* every message that needs nothing before it, any two in a connection.    *)
EXTENDS HUMessages

Others ==
    {Msg(t, "Control", 0) : t \in {"PingRequest", "NavigationFocusRequest",
        "ShutdownRequest", "VoiceSessionRequest", "AudioFocusRequest", "Unknown"}}
    \union
    {Msg("SensorStartRequest", "Sensor", 0), Msg("BindingRequest", "Touch", 0),
     Msg("BluetoothPairingRequest", "Bluetooth", 0),
     Msg("BluetoothAuthData", "Bluetooth", 0), Msg("PhoneStatus", "PhoneStatus", 0),
     Msg("MicRequest", "Microphone", 0), Msg("MediaAck", "Microphone", 0)}
    \union
    {Msg(t, "Notification", 0) : t \in {"StartGenericNotifications",
        "StopGenericNotifications", "GenericNotificationResponse"}}
    \union
    {Msg(t, "Navigation", 0) : t \in {"NaviStatus", "NaviTurn", "NaviTurnDistance"}}
    \union {Msg("VideoFocusRequest", "Video", 0)}
=============================================================================
