------------------------------- MODULE MCWsSession -------------------------------
EXTENDS WsSession, TLC

CONSTANTS mono, stereo

\* Together they need one channel more than there is.
MCSessions   == {mono, stereo}
MCChannels   == (mono :> 1) @@ (stereo :> 2)
MCWithConfig == {mono}
=============================================================================
