---------------------------- MODULE MCLiveWindow ----------------------------
\* A small instance of LiveWindow: a poll is one unit of time, a batch may last
\* one, the window two.
EXTENDS LiveWindow
=============================================================================
