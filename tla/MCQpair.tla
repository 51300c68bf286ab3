------------------------------ MODULE MCQpair ------------------------------
(* Qpair on two queue pairs and devices with MSI-X, MSI or neither. *)
EXTENDS Qpair

Dev(x, m, n) == [msix |-> x, msi |-> m, nvec |-> n]

MCDevices == {Dev("usable", TRUE, 3), Dev("usable", FALSE, 2),
              Dev("none", TRUE, 1), Dev("none", TRUE, 4),
              Dev("bad_bar", TRUE, 4), Dev("none", FALSE, 1)}
=============================================================================
