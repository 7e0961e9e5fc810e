---------------------------- MODULE MCSshSession ----------------------------
EXTENDS SshSession
ThresholdsTwo == {1, 5}
=============================================================================
