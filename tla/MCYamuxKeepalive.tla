--------------------------- MODULE MCYamuxKeepalive ---------------------------
\* YamuxKeepalive with a timeout of several intervals, so that several pings are
\* outstanding at once, and ids that wrap round within a few of them.
EXTENDS YamuxKeepalive

=============================================================================
