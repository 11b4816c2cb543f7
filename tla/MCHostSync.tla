----------------------------- MODULE MCHostSync -----------------------------
EXTENDS HostSync

CONSTANTS a, b, h, p, q

TwoDevices == {a, b}
NoDevice == {}
OneHost == {h}
OneValue == {1}
TwoValues == {1, 2}
OnePassword == {p}
TwoPasswords == {p, q}
AllFaults == {"failure", "loss", "crash", "recovery"}
ButFailure == {"loss", "crash", "recovery"}
AllRefusals == {"conflict", "precondition"}
=============================================================================
