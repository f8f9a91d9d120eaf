---------------------------- MODULE MCMasternode ----------------------------
EXTENDS Masternode
=============================================================================
