---------------------------- MODULE MCEtcdBackup ----------------------------
EXTENDS EtcdBackup
=============================================================================
