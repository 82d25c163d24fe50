---- MODULE MCSpool ----
EXTENDS DesktopSpool
====
