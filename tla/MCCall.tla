------------------------------- MODULE MCCall -------------------------------
EXTENDS Call
MCBudgets == {[signals |-> 4, frames |-> 0, restarts |-> 1],
              [signals |-> 5, frames |-> 0, restarts |-> 0],
              [signals |-> 1, frames |-> 4, restarts |-> 0]}
=============================================================================
