---------------------------- MODULE MCMetricsScrape ----------------------------
(* The instance of MCLagRegister with a scraping HTTP handler.             *)
EXTENDS MetricsScrape, MCLagRegister
=============================================================================
