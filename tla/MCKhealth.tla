------------------------------ MODULE MCKhealth ------------------------------
EXTENDS Khealth

MCTabs == {{}, {"journal"}, {"config"}}
MCMaxVersion == [secrets |-> 1, configmaps |-> 0]
\* --bootstrap-name: every cluster's file is to have the same name.
MCNameOf == [e \in Host |-> "prod"]

=============================================================================
