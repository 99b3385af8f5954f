------------------------------ MODULE Services ------------------------------
(***************************************************************************)
(* What runs beside checkout and content: the payment preference, the      *)
(* runtime configuration, leads, email templates, customer accounts, the   *)
(* producer of the site's preview artifacts, and its deployment.  They     *)
(* share no table and no request writes to two of them, so their           *)
(* behaviours are told one service at a time: the first state chooses      *)
(* which, and the others stay as they are.                                 *)
(***************************************************************************)
EXTENDS PaymentSettings, RuntimeConfig, Leads, EmailTemplates, CustomerAuth,
        PreviewArtifacts, Deployment

VARIABLE service

storeVars == <<vars, configVars, leadVars, emailVars>>
siteVars == <<authVars, artifactVars, deployVars>>
serviceVars == <<service, storeVars, siteVars>>

Service == {"payment", "config", "leads", "email", "customers", "artifacts",
            "deployment"}

ServicesTypeOK ==
  /\ service \in Service
  /\ TypeOK /\ ConfigTypeOK /\ LeadTypeOK /\ EmailTypeOK
  /\ AuthTypeOK /\ ArtifactTypeOK /\ DeployTypeOK

(* One of the initial states of a deployment, for behaviours of the others *)
StartsBare ==
  /\ Len(cloud.d1) = 1
  /\ \A p \in Pipelines : ~pipeline[p].template

ServicesInit ==
  /\ service \in Service
  /\ Init /\ ConfigInit /\ LeadInit /\ EmailInit
  /\ AuthInit /\ ArtifactInit
  /\ DeployInit
  /\ service # "deployment" => StartsBare

ServicesNext ==
  /\ UNCHANGED service
  /\ \/ /\ service = "payment" /\ Next
        /\ UNCHANGED <<configVars, leadVars, emailVars, siteVars>>
     \/ /\ service = "config" /\ ConfigNext
        /\ UNCHANGED <<vars, leadVars, emailVars, siteVars>>
     \/ /\ service = "leads" /\ LeadNext
        /\ UNCHANGED <<vars, configVars, emailVars, siteVars>>
     \/ /\ service = "email" /\ EmailNext
        /\ UNCHANGED <<vars, configVars, leadVars, siteVars>>
     \/ /\ service = "customers" /\ AuthNext
        /\ UNCHANGED <<storeVars, artifactVars, deployVars>>
     \/ /\ service = "artifacts" /\ ArtifactNext
        /\ UNCHANGED <<storeVars, authVars, deployVars>>
     \/ /\ service = "deployment" /\ DeployNext
        /\ UNCHANGED <<storeVars, authVars, artifactVars>>

ServicesSpec == ServicesInit /\ [][ServicesNext]_serviceVars
=============================================================================
