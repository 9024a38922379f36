--------------------------- MODULE MCGhResources ---------------------------
\* The TLC instances of GhResources.
EXTENDS GhResources

SomeLists == { <<"DB_TX", "VIRTIO", "MQ_TX", "VCPU", "VPM", "DB_RX", "MQ_RX", "WDOG">> }

\* The proxy scheduler takes the VM, skips it or is not there, and then there is no
\* virtio backend either.
SomeSetups == { <<"takes", TRUE>>, <<"skips", TRUE>>, <<"absent", FALSE>> }
=============================================================================
