------------------------------- MODULE MCDnsRace -------------------------------
EXTENDS DnsRace
==============================================================================
